---------------------------- MODULE Spec2Model ----------------------------
(***************************************************************************)
(* Model of the NAF Solution Wizard data core:                             *)
(*   wizard_data.build_wizard_payload / restore_session_state_from_data,   *)
(*   the page's inline timeline schedule and _add_business_days.           *)
(*                                                                         *)
(* Python values are tagged tuples; a Python str is a sequence of tokens   *)
(* (so that startswith / replace / strip / f-strings can be computed);     *)
(* a Python dict is an insertion-ordered sequence of <<key, value>> pairs. *)
(* The em dash of the placeholder strings is written "--".                 *)
(***************************************************************************)
EXTENDS Integers, Sequences, FiniteSets, TLC

VARIABLES
    session_state,   \* the form-state snapshot handed to build_wizard_payload
    payload,         \* the document built from it (or an uploaded document)
    updates,         \* what restore_session_state_from_data returned
    payload2,        \* build_wizard_payload(updates)
    pc,              \* position in the build / restore / rebuild sequence
    page_state,      \* st.session_state as the page's timeline section reads it
    holiday_set,     \* what the page's _build_holiday_set returned
    page_timeline,   \* payload["timeline"] as the page builds it
    bd_args,         \* <<d, n, holiday_set>> handed to _add_business_days
    bd_result,       \* its return value
    sentence_args,   \* <<items, prefix, suffix>> handed to _build_sentence_from_list
    sentence,        \* its return value
    any_content      \* what the page's _has_any_content(payload) returned

vars == <<session_state, payload, updates, payload2, pc,
          page_state, holiday_set, page_timeline, bd_args, bd_result,
          sentence_args, sentence, any_content>>

-----------------------------------------------------------------------------
(* Bounds of the model *)

\* longest milestone list drawn
MaxMilestones == 2
\* largest n handed to _add_business_days
MaxBusinessDays == 6
\* number of consecutive start dates drawn, from 2023-12-29 (a Friday) on
StartDates == 4
\* longest selection list of an uploaded document
MaxSelections == 2
\* longest item list handed to _build_sentence_from_list
MaxItems == 4

-----------------------------------------------------------------------------
(* Python values *)

None == <<"none">>
Str(s) == <<"str", s>>
Bool(b) == <<"bool", b>>
IntV(n) == <<"int", n>>
Date(o) == <<"date", o>>
List(xs) == <<"list", xs>>
Dict(es) == <<"dict", es>>
\* the outcome of a call that raised
Raised(kind) == <<"raise", kind>>
\* "no value yet" for the variables of the model
Unset == <<"unset">>

IsNone(v) == v[1] = "none"
IsStr(v) == v[1] = "str"
IsBool(v) == v[1] = "bool"
IsInt(v) == v[1] = "int"
IsDate(v) == v[1] = "date"
IsList(v) == v[1] = "list"
IsDict(v) == v[1] = "dict"
IsRaised(v) == v[1] = "raise"

EmptyStr == Str(<<>>)
EmptyList == List(<<>>)
EmptyDict == Dict(<<>>)
\* a one-token string literal
Lit(t) == Str(<<t>>)

\* bool(v)
Truthy(v) ==
    CASE IsNone(v) -> FALSE
      [] IsStr(v) -> v[2] # <<>>
      [] IsBool(v) -> v[2]
      [] IsInt(v) -> v[2] # 0
      [] IsList(v) -> v[2] # <<>>
      [] IsDict(v) -> v[2] # <<>>
      [] OTHER -> TRUE

\* v or w
Or(v, w) == IF Truthy(v) THEN v ELSE w

\* str(v)
PyStr(v) ==
    CASE IsStr(v) -> v
      [] IsNone(v) -> Lit("None")
      [] IsBool(v) -> IF v[2] THEN Lit("True") ELSE Lit("False")
      [] IsInt(v) -> Lit(ToString(v[2]))
      [] OTHER -> Lit("<object>")

\* d.get(k, default) on a dict value; k is a raw string (token sequence)
HasKey(d, k) == \E i \in 1..Len(d[2]) : d[2][i][1] = k

Get(d, k, default) ==
    IF HasKey(d, k)
    THEN d[2][CHOOSE i \in 1..Len(d[2]) : d[2][i][1] = k][2]
    ELSE default

\* d[k] = v: an existing key keeps its place, a new one goes last
Put(d, k, v) ==
    IF HasKey(d, k)
    THEN Dict([i \in 1..Len(d[2]) |->
                 IF d[2][i][1] = k THEN <<k, v>> ELSE d[2][i]])
    ELSE Dict(Append(d[2], <<k, v>>))

RECURSIVE PutAll(_, _)
\* d.update(pairs), pair by pair
PutAll(d, pairs) ==
    IF pairs = <<>> THEN d
    ELSE PutAll(Put(d, Head(pairs)[1], Head(pairs)[2]), Tail(pairs))

\* a dict literal
MkDict(pairs) == PutAll(EmptyDict, pairs)

\* a fixed key or a string literal of one token
K(t) == <<t>>

-----------------------------------------------------------------------------
(* Python str operations on token sequences *)

StartsWith(s, prefix) ==
    /\ Len(s) >= Len(prefix)
    /\ SubSeq(s, 1, Len(prefix)) = prefix

EndsWith(s, suffix) ==
    /\ Len(s) >= Len(suffix)
    /\ SubSeq(s, Len(s) - Len(suffix) + 1, Len(s)) = suffix

RECURSIVE Replace(_, _)
\* s.replace(old, ""): every occurrence of old removed, left to right
Replace(s, old) ==
    IF s = <<>> THEN <<>>
    ELSE IF old # <<>> /\ StartsWith(s, old)
         THEN Replace(SubSeq(s, Len(old) + 1, Len(s)), old)
         ELSE <<Head(s)>> \o Replace(Tail(s), old)

\* the whitespace token
Space == " "

RECURSIVE LStrip(_)
LStrip(s) == IF s # <<>> /\ Head(s) = Space THEN LStrip(Tail(s)) ELSE s

RECURSIVE RStrip(_)
RStrip(s) ==
    IF s # <<>> /\ s[Len(s)] = Space THEN RStrip(SubSeq(s, 1, Len(s) - 1)) ELSE s

\* s.strip()
Strip(s) == RStrip(LStrip(s))

-----------------------------------------------------------------------------
(* datetime.date: a proleptic Gregorian ordinal, as in CPython.  The model   *)
(* converts ordinals of 2023-01-01 and later.                                *)

\* <<year, ordinal of its 1 January>> from which the conversions count
Anchor == <<2023, 738521>>

IsLeap(y) == (y % 4 = 0) /\ ((y % 100 # 0) \/ (y % 400 = 0))

DaysInYear(y) == IF IsLeap(y) THEN 366 ELSE 365

DaysInMonth(y, m) ==
    IF m = 2 THEN (IF IsLeap(y) THEN 29 ELSE 28)
    ELSE IF m \in {4, 6, 9, 11} THEN 30 ELSE 31

RECURSIVE DaysBeforeYear(_)
\* days from the anchor to 1 January of year y
DaysBeforeYear(y) ==
    IF y <= Anchor[1] THEN 0 ELSE DaysBeforeYear(y - 1) + DaysInYear(y - 1)

RECURSIVE DaysBeforeMonth(_, _)
DaysBeforeMonth(y, m) ==
    IF m <= 1 THEN 0 ELSE DaysBeforeMonth(y, m - 1) + DaysInMonth(y, m - 1)

\* date(y, m, d).toordinal()
ToOrdinal(y, m, d) == Anchor[2] + DaysBeforeYear(y) + DaysBeforeMonth(y, m) + (d - 1)

RECURSIVE YearFrom(_, _)
\* the year of the day that lies `rest` days after 1 January of year y
YearFrom(y, rest) ==
    IF rest < DaysInYear(y) THEN <<y, rest>> ELSE YearFrom(y + 1, rest - DaysInYear(y))

RECURSIVE MonthFrom(_, _, _)
MonthFrom(y, m, rest) ==
    IF rest < DaysInMonth(y, m) THEN <<m, rest + 1>>
    ELSE MonthFrom(y, m + 1, rest - DaysInMonth(y, m))

\* date.fromordinal(o) as <<year, month, day>>
Ymd(o) ==
    LET yr == YearFrom(Anchor[1], o - Anchor[2])
        md == MonthFrom(yr[1], 1, yr[2])
    IN <<yr[1], md[1], md[2]>>

\* date.weekday(): Monday is 0
weekday(o) == (o + 6) % 7

Pad2(n) == IF n < 10 THEN "0" \o ToString(n) ELSE ToString(n)

\* the text "YYYY-MM-DD" as tokens
IsoText(y, m, d) == <<ToString(y), "-", Pad2(m), "-", Pad2(d)>>

\* date.strftime("%Y-%m-%d")
strftime(o) == LET t == Ymd(o) IN IsoText(t[1], t[2], t[3])

\* years strptime is asked about in the model
ParseYears == 2023..2026

\* datetime.strptime(s, "%Y-%m-%d").date(): the date, or ValueError
strptime(s) ==
    IF /\ Len(s) = 5
       /\ s[2] = "-"
       /\ s[4] = "-"
       /\ \E y \in ParseYears, m \in 1..12 :
             /\ s[1] = ToString(y)
             /\ s[3] \in {Pad2(m), ToString(m)}
             /\ \E d \in 1..DaysInMonth(y, m) : s[5] \in {Pad2(d), ToString(d)}
    THEN LET y == CHOOSE y \in ParseYears : s[1] = ToString(y)
             m == CHOOSE m \in 1..12 : s[3] \in {Pad2(m), ToString(m)}
             d == CHOOSE d \in 1..DaysInMonth(y, m) : s[5] \in {Pad2(d), ToString(d)}
         IN Date(ToOrdinal(y, m, d))
    ELSE Raised("ValueError")

\* datetime.datetime.today().date(): the day the model runs on
Today == Date(ToOrdinal(2024, 3, 1))

\* int(v): the integer, or the exception int() raises
int(v) ==
    CASE IsInt(v) -> v
      [] IsBool(v) -> IntV(IF v[2] THEN 1 ELSE 0)
      [] IsStr(v) ->
           IF \E n \in 0..99 : Strip(v[2]) = <<ToString(n)>>
           THEN IntV(CHOOSE n \in 0..99 : Strip(v[2]) = <<ToString(n)>>)
           ELSE Raised("ValueError")
      [] OTHER -> Raised("TypeError")

-----------------------------------------------------------------------------
(* pages/20_NAF_Solution_Wizard.py: _add_business_days *)

RECURSIVE add_business_days_weekends_only(_, _, _)
\* a variant of the loop that does not look at the holidays
add_business_days_weekends_only(cur, days, holidays) ==
    IF days > 0
    THEN LET nxt == cur + 1
         IN add_business_days_weekends_only(
                nxt, IF weekday(nxt) < 5 THEN days - 1 ELSE days, holidays)
    ELSE cur

RECURSIVE add_business_days_loop(_, _, _)
\* the while loop: cur and days are its two variables
add_business_days_loop(cur, days, holidays) ==
    IF days > 0
    THEN LET nxt == cur + 1
         IN add_business_days_loop(
                nxt,
                IF weekday(nxt) < 5 /\ nxt \notin holidays THEN days - 1 ELSE days,
                holidays)
    ELSE cur

\* _add_business_days(d, n, holiday_set); d an ordinal, n a Python value,
\* holiday_set a set of ordinals (None is modelled by the empty set)
add_business_days(d, n, holidays) ==
    LET days == int(Or(n, IntV(0)))
    IN IF IsRaised(days) THEN days
       ELSE Date(add_business_days_loop(d, days[2], holidays))

-----------------------------------------------------------------------------
(* wizard_data.py: _build_timeline_data *)

RECURSIVE wd_advance(_, _, _)
\* the inner while loop of _build_timeline_data ("weekends only")
wd_advance(cursor, days_added, duration) ==
    IF days_added < duration
    THEN wd_advance(cursor + 1,
                    IF weekday(cursor + 1) < 5 THEN days_added + 1 ELSE days_added,
                    duration)
    ELSE cursor

\* end = cursor - datetime.timedelta(days=1)
wd_milestone_end(cursor) == cursor - 1

RECURSIVE wd_schedule(_, _, _, _)
\* the for loop over the milestones: every milestone is appended; raised is
\* the exception of "total_bd += duration" for a duration that is no number
wd_schedule(milestones, cursor, total_bd, schedule) ==
    IF milestones = <<>>
    THEN [schedule |-> schedule, total_bd |-> total_bd, raised |-> None]
    ELSE LET milestone == Head(milestones)
             duration_bd == Get(milestone, K("duration_bd"), IntV(0))
             duration == duration_bd[2]
             start == cursor
             cursor2 == wd_advance(cursor, 0, duration)
             end == wd_milestone_end(cursor2)
             item == [name |-> Get(milestone, K("name"), EmptyStr),
                      duration_bd |-> duration,
                      start |-> start,
                      end |-> end,
                      notes |-> Get(milestone, K("notes"), EmptyStr)]
         IN IF ~IsInt(duration_bd)
            THEN [schedule |-> schedule, total_bd |-> total_bd,
                  raised |-> Raised("TypeError")]
            ELSE wd_schedule(Tail(milestones), cursor2, total_bd + duration,
                             Append(schedule, item))

\* the "items" list of a timeline: the schedule with its dates formatted
timeline_items(schedule) ==
    List([i \in 1..Len(schedule) |->
            MkDict(<< <<K("name"), schedule[i].name>>,
                      <<K("duration_bd"), IntV(schedule[i].duration_bd)>>,
                      <<K("start"), Str(strftime(schedule[i].start))>>,
                      <<K("end"), Str(strftime(schedule[i].end))>>,
                      <<K("notes"), schedule[i].notes>> >>)])

\* a variant that reports the end of the first milestone
projected_completion_first(schedule) ==
    IF schedule # <<>> THEN Str(strftime(schedule[1].end)) ELSE None

\* projected_completion: the last end, or None
projected_completion(schedule) ==
    IF schedule # <<>> THEN Str(strftime(schedule[Len(schedule)].end)) ELSE None

build_timeline_data(ss) ==
    LET raw == Get(ss, K("timeline_start_date"), None)
        start_date == IF IsStr(raw) THEN strptime(raw[2])
                      ELSE IF ~IsDate(raw) THEN Today ELSE raw
        staff_count == int(Get(ss, K("timeline_staff_count"), IntV(0)))
        external_staff_count == int(Get(ss, K("timeline_external_staff_count"), IntV(0)))
        milestones == Get(ss, K("timeline_milestones"), EmptyList)
        r == wd_schedule(milestones[2], start_date[2], 0, <<>>)
    IN IF IsRaised(start_date) THEN start_date
       ELSE IF IsRaised(staff_count) THEN staff_count
       ELSE IF IsRaised(external_staff_count) THEN external_staff_count
       ELSE IF IsRaised(r.raised) THEN r.raised
       ELSE MkDict(<<
              <<K("start_date"), Str(strftime(start_date[2]))>>,
              <<K("total_business_days"), IntV(r.total_bd)>>,
              <<K("projected_completion"), projected_completion(r.schedule)>>,
              <<K("build_buy"), Get(ss, K("timeline_build_buy"), Lit("Build In-House"))>>,
              <<K("staff_count"), staff_count>>,
              <<K("external_staff_count"), external_staff_count>>,
              <<K("staffing_plan_md"), Get(ss, K("timeline_staffing_plan"), EmptyStr)>>,
              <<K("holiday_region"), Get(ss, K("timeline_holiday_region"), Lit("None"))>>,
              <<K("items"), timeline_items(r.schedule)>> >>)

-----------------------------------------------------------------------------
(* pages/20_NAF_Solution_Wizard.py: the timeline section's inline schedule *)

\* a row is skipped when it has no name and no duration
page_row_skipped(name, dur) == name = <<>> /\ dur <= 0

\* end = _add_business_days(start, dur, holiday_set) if dur > 0 else start
page_milestone_end(start, dur, holidays) ==
    IF dur > 0 THEN add_business_days(start, IntV(dur), holidays)[2] ELSE start

RECURSIVE page_schedule(_, _, _, _, _)
\* the "Build schedule" loop
page_schedule(rows, cursor, holidays, total_bd, schedule) ==
    IF rows = <<>>
    THEN [schedule |-> schedule, total_bd |-> total_bd]
    ELSE LET row == Head(rows)
             name == Strip(Or(Get(row, K("name"), None), EmptyStr)[2])
             dur == int(Or(Get(row, K("duration"), None), IntV(0)))[2]
             notes == Or(Get(row, K("notes"), None), EmptyStr)
         IN IF page_row_skipped(name, dur)
            THEN page_schedule(Tail(rows), cursor, holidays, total_bd, schedule)
            ELSE LET start == cursor
                     end == page_milestone_end(start, dur, holidays)
                     item == [name |-> Or(Str(name), Lit("(Unnamed)")),
                              duration_bd |-> dur,
                              start |-> start,
                              end |-> end,
                              notes |-> notes]
                 IN page_schedule(Tail(rows), end, holidays,
                                  total_bd + (IF dur > 0 THEN dur ELSE 0),
                                  Append(schedule, item))

\* payload["timeline"] of the page; ps is st.session_state after the widgets
\* of the section have written their values back
page_build_timeline(ps, holidays) ==
    LET start_date == Get(ps, K("timeline_start_date"), None)
        rows == Get(ps, K("timeline_milestones"), EmptyList)
        r == page_schedule(rows[2], start_date[2], holidays, 0, <<>>)
    IN MkDict(<<
         <<K("start_date"), Str(strftime(start_date[2]))>>,
         <<K("total_business_days"), IntV(r.total_bd)>>,
         <<K("projected_completion"), projected_completion(r.schedule)>>,
         <<K("build_buy"), Get(ps, K("timeline_build_buy"), Lit("Build In-House"))>>,
         <<K("staff_count"), int(Get(ps, K("timeline_staff_count"), IntV(0)))>>,
         <<K("external_staff_count"),
           int(Get(ps, K("timeline_external_staff_count"), IntV(0)))>>,
         <<K("staffing_plan_md"), Get(ps, K("timeline_staffing_plan"), EmptyStr)>>,
         <<K("holiday_region"), Get(ps, K("timeline_holiday_region"), Lit("None"))>>,
         <<K("items"), timeline_items(r.schedule)>> >>)

-----------------------------------------------------------------------------
(* wizard_data.py: the helpers of the builder *)

RECURSIVE collect_entries(_, _)
collect_entries(entries, prefix) ==
    IF entries = <<>> THEN <<>>
    ELSE LET key == Head(entries)[1]
             value == Head(entries)[2]
             rest == collect_entries(Tail(entries), prefix)
         IN IF StartsWith(key, prefix) /\ value = Bool(TRUE)
            THEN <<Str(Replace(key, prefix))>> \o rest
            ELSE rest

\* _collect_checkbox_values(session_state, prefix): a Python list of str
collect_checkbox_values(ss, prefix) == collect_entries(ss[2], prefix)

RECURSIVE JoinWith(_, _)
\* sep.join(items) for a list of str values
JoinWith(items, sep) ==
    IF items = <<>> THEN <<>>
    ELSE IF Len(items) = 1 THEN items[1][2]
    ELSE items[1][2] \o sep \o JoinWith(Tail(items), sep)

\* _build_sentence_from_list with the two-item case joined like a longer list
build_sentence_from_list_comma(items, prefix, suffix) ==
    IF items = <<>> THEN EmptyStr
    ELSE IF Len(items) = 1 THEN Str(prefix \o items[1][2] \o suffix)
    ELSE Str(prefix \o JoinWith(SubSeq(items, 1, Len(items) - 1), <<", ">>)
                    \o <<", and ">> \o items[Len(items)][2] \o suffix)

\* _build_sentence_from_list(items, prefix, suffix)
build_sentence_from_list(items, prefix, suffix) ==
    IF items = <<>> THEN EmptyStr
    ELSE IF Len(items) = 1 THEN Str(prefix \o items[1][2] \o suffix)
    ELSE IF Len(items) = 2
         THEN Str(prefix \o items[1][2] \o <<" and ">> \o items[2][2] \o suffix)
    ELSE Str(prefix \o JoinWith(SubSeq(items, 1, Len(items) - 1), <<", ">>)
                    \o <<", and ">> \o items[Len(items)][2] \o suffix)

\* _get_custom_value(session_state, key, enable_key)
get_custom_value(ss, key, enable_key) ==
    IF Truthy(Get(ss, enable_key, Bool(FALSE))) THEN Get(ss, key, EmptyStr) ELSE EmptyStr

\* selected.append(custom) under "if custom:"
append_custom(selected, custom) ==
    IF Truthy(custom) THEN Append(selected, custom) ELSE selected

\* the comma token
Comma == ","

RECURSIVE SplitComma(_, _)
\* s.split(","): the pieces as raw strings; acc is the piece being read
SplitComma(s, acc) ==
    IF s = <<>> THEN <<acc>>
    ELSE IF Head(s) = Comma THEN <<acc>> \o SplitComma(Tail(s), <<>>)
    ELSE SplitComma(Tail(s), Append(acc, Head(s)))

\* selected.extend([v.strip() for v in custom.split(",")]) under "if custom:"
extend_custom(selected, custom) ==
    IF Truthy(custom)
    THEN LET parts == SplitComma(custom[2], <<>>)
         IN selected \o [i \in 1..Len(parts) |-> Str(Strip(parts[i]))]
    ELSE selected

-----------------------------------------------------------------------------
(* wizard_data.py: the section builders *)

build_presentation_data(ss) ==
    LET selected_users ==
            append_custom(collect_checkbox_values(ss, <<"pres_", "user_">>),
                get_custom_value(ss, <<"pres_", "user_", "custom">>,
                                     <<"pres_", "user_", "custom_enable">>))
        selected_interactions ==
            append_custom(collect_checkbox_values(ss, <<"pres_", "interact_">>),
                get_custom_value(ss, <<"pres_", "interact_", "custom">>,
                                     <<"pres_", "interact_", "custom_enable">>))
        selected_tools ==
            append_custom(collect_checkbox_values(ss, <<"pres_", "tool_">>),
                get_custom_value(ss, <<"pres_", "tool_", "custom">>,
                                     <<"pres_", "tool_", "custom_enable">>))
        selected_auth_pres ==
            append_custom(collect_checkbox_values(ss, <<"pres_", "auth_">>),
                get_custom_value(ss, <<"pres_", "auth_", "other_text">>,
                                     <<"pres_", "auth_", "other_enable">>))
    IN MkDict(<<
         <<K("users"), build_sentence_from_list(selected_users,
                           <<"This solution targets ">>, <<".">>)>>,
         <<K("interaction"), build_sentence_from_list(selected_interactions,
                           <<"Users will interact with the solution via ">>, <<".">>)>>,
         <<K("tools"), build_sentence_from_list(selected_tools,
                           <<"The presentation layer will be built using ">>, <<".">>)>>,
         <<K("auth"), build_sentence_from_list(selected_auth_pres,
                           <<"Presentation authentication will use ">>, <<".">>)>>,
         <<K("selections"), MkDict(<<
              <<K("users"), List(selected_users)>>,
              <<K("interactions"), List(selected_interactions)>>,
              <<K("tools"), List(selected_tools)>>,
              <<K("auth"), List(selected_auth_pres)>> >>)>> >>)

build_intent_data(ss) ==
    LET selected_intent_devs ==
            extend_custom(collect_checkbox_values(ss, <<"intent_", "dev_">>),
                get_custom_value(ss, <<"intent_", "dev_", "custom">>,
                                     <<"intent_", "dev_", "custom_enable">>))
        selected_intent_prov ==
            extend_custom(collect_checkbox_values(ss, <<"intent_", "prov_">>),
                get_custom_value(ss, <<"intent_", "prov_", "custom">>,
                                     <<"intent_", "prov_", "custom_enable">>))
    IN MkDict(<<
         <<K("development"), build_sentence_from_list(selected_intent_devs,
                           <<"We will develop ">>, <<".">>)>>,
         <<K("provided"), build_sentence_from_list(selected_intent_prov,
                           <<"We will use existing ">>, <<".">>)>>,
         <<K("selections"), MkDict(<<
              <<K("development"), List(selected_intent_devs)>>,
              <<K("provided"), List(selected_intent_prov)>> >>)>> >>)

build_observability_data(ss) ==
    LET selected_methods == collect_checkbox_values(ss, <<"obs_", "state_">>)
        selected_tools_obs ==
            append_custom(collect_checkbox_values(ss, <<"obs_", "tool_">>),
                get_custom_value(ss, <<"obs_", "tool_", "other_text">>,
                                     <<"obs_", "tool_", "other_enable">>))
        go_no_go_text == Get(ss, <<"obs_", "go_no_go">>, EmptyStr)
        add_logic_choice == Get(ss, <<"obs_", "add_logic_choice">>, EmptyStr)
        add_logic_text == Get(ss, <<"obs_", "add_logic_text">>, EmptyStr)
        add_logic_sentence ==
            IF add_logic_choice = Lit("Yes") /\ Truthy(add_logic_text)
            THEN Str(<<"Additional gating logic: ">> \o add_logic_text[2])
            ELSE EmptyStr
    IN MkDict(<<
         <<K("methods"), build_sentence_from_list(selected_methods,
                           <<"State will be represented using ">>, <<".">>)>>,
         <<K("go_no_go"), go_no_go_text>>,
         <<K("additional_logic"), add_logic_sentence>>,
         <<K("tools"), build_sentence_from_list(selected_tools_obs,
                           <<"Observability tools include ">>, <<".">>)>>,
         <<K("selections"), MkDict(<<
              <<K("methods"), List(selected_methods)>>,
              <<K("go_no_go_text"), go_no_go_text>>,
              <<K("additional_logic_enabled"), Bool(add_logic_choice = Lit("Yes"))>>,
              <<K("additional_logic_text"), add_logic_text>>,
              <<K("tools"), List(selected_tools_obs)>> >>)>> >>)

\* the placeholder of the radio groups, "— Select one —"
SelectOne == Lit("-- Select one --")

build_orchestration_data(ss) ==
    LET orch_choice == Get(ss, <<"orch_", "choice">>, SelectOne)
        orch_details == Get(ss, <<"orch_", "details_text">>, EmptyStr)
        orch_sentence ==
            IF Truthy(orch_choice) /\ orch_choice # SelectOne
            THEN IF orch_choice = Lit("No")
                 THEN Lit("No orchestration is required for this solution.")
                 ELSE IF Truthy(orch_details)
                      THEN Str(<<"Orchestration will be handled using ">>
                               \o PyStr(orch_choice)[2] \o <<": ">>
                               \o PyStr(orch_details)[2])
                      ELSE Str(<<"Orchestration will be handled using ">>
                               \o PyStr(orch_choice)[2] \o <<".">>)
            ELSE EmptyStr
    IN MkDict(<<
         <<K("summary"), orch_sentence>>,
         <<K("selections"), MkDict(<<
              <<K("choice"), orch_choice>>,
              <<K("details"), orch_details>> >>)>> >>)

build_collector_data(ss) ==
    LET selected_methods ==
            append_custom(collect_checkbox_values(ss, <<"collector_", "method_">>),
                get_custom_value(ss, <<"collector_", "methods_other">>,
                                     <<"collector_", "methods_other_enable">>))
        selected_auth ==
            append_custom(collect_checkbox_values(ss, <<"collector_", "auth_">>),
                get_custom_value(ss, <<"collector_", "auth_", "other">>,
                                     <<"collector_", "auth_", "other_enable">>))
        selected_handling ==
            append_custom(collect_checkbox_values(ss, <<"collector_", "handle_">>),
                get_custom_value(ss, <<"collector_", "handling_other">>,
                                     <<"collector_", "handling_other_enable">>))
        selected_norm ==
            append_custom(collect_checkbox_values(ss, <<"collector_", "norm_">>),
                get_custom_value(ss, <<"collector_", "norm_", "other">>,
                                     <<"collector_", "norm_", "other_enable">>))
        selected_tools ==
            append_custom(collect_checkbox_values(ss, <<"collection_tool_">>),
                get_custom_value(ss, <<"collection_tools_", "other">>,
                                     <<"collection_tools_", "other_enable">>))
        devices == Get(ss, <<"collector_", "devices">>, EmptyStr)
        metrics == Get(ss, <<"collector_", "metrics">>, EmptyStr)
        cadence == Get(ss, <<"collector_", "cadence">>, EmptyStr)
        scale_parts ==
            (IF Truthy(devices)
             THEN <<Str(<<"devices/scope: ">> \o PyStr(devices)[2])>> ELSE <<>>)
            \o (IF Truthy(metrics)
                THEN <<Str(<<"metrics: ">> \o PyStr(metrics)[2])>> ELSE <<>>)
            \o (IF Truthy(cadence)
                THEN <<Str(<<"cadence: ">> \o PyStr(cadence)[2])>> ELSE <<>>)
        scale_sentence ==
            IF Truthy(devices) \/ Truthy(metrics) \/ Truthy(cadence)
            THEN Str(<<"Scale considerations: ">> \o JoinWith(scale_parts, <<"; ">>)
                     \o <<".">>)
            ELSE EmptyStr
    IN MkDict(<<
         <<K("methods"), build_sentence_from_list(selected_methods,
                           <<"Data will be collected using ">>, <<".">>)>>,
         <<K("auth"), build_sentence_from_list(selected_auth,
                           <<"Collection authentication will use ">>, <<".">>)>>,
         <<K("handling"), build_sentence_from_list(selected_handling,
                           <<"Data will be handled using ">>, <<".">>)>>,
         <<K("normalization"), build_sentence_from_list(selected_norm,
                           <<"Data will be normalized using ">>, <<".">>)>>,
         <<K("scale"), scale_sentence>>,
         <<K("tools"), build_sentence_from_list(selected_tools,
                           <<"Collection tools include ">>, <<".">>)>>,
         <<K("selections"), MkDict(<<
              <<K("methods"), List(selected_methods)>>,
              <<K("auth"), List(selected_auth)>>,
              <<K("handling"), List(selected_handling)>>,
              <<K("normalization"), List(selected_norm)>>,
              <<K("devices"), devices>>,
              <<K("metrics_per_sec"), metrics>>,
              <<K("cadence"), cadence>>,
              <<K("tools"), List(selected_tools)>> >>)>> >>)

build_executor_data(ss) ==
    LET selected_exec ==
            extend_custom(collect_checkbox_values(ss, <<"exec_">>),
                get_custom_value(ss, <<"exec_", "custom_text">>,
                                     <<"exec_", "custom_enable">>))
    IN MkDict(<<
         <<K("methods"), build_sentence_from_list(selected_exec,
                           <<"Changes will be executed using ">>, <<".">>)>>,
         <<K("selections"), MkDict(<<
              <<K("methods"), List(selected_exec)>> >>)>> >>)

RECURSIVE dependency_entries(_, _)
\* the scan of _build_dependencies_data over session_state.items()
dependency_entries(entries, ss) ==
    IF entries = <<>> THEN <<>>
    ELSE LET key == Head(entries)[1]
             value == Head(entries)[2]
             rest == dependency_entries(Tail(entries), ss)
         IN IF /\ StartsWith(key, <<"dep_">>)
               /\ ~EndsWith(key, <<"_details">>)
               /\ Truthy(value)
            THEN LET dep_key == Replace(key, <<"dep_">>)
                     details == Get(ss, <<"dep_">> \o dep_key \o <<"_details">>, EmptyStr)
                 IN <<MkDict(<< <<K("name"), Str(dep_key)>>,
                                <<K("details"), details>> >>)>> \o rest
            ELSE rest

\* the default pair of _build_dependencies_data
default_dependencies ==
    << MkDict(<< <<K("name"), Lit("Network Infrastructure")>>,
                 <<K("details"), EmptyStr>> >>),
       MkDict(<< <<K("name"), Lit("Revision Control system")>>,
                 <<K("details"), Lit("GitHub")>> >>) >>

\* _build_dependencies_data with the default pair added to every list
build_dependencies_data_with_defaults(ss) ==
    List(dependency_entries(ss[2], ss) \o default_dependencies)

build_dependencies_data(ss) ==
    LET dependencies == dependency_entries(ss[2], ss)
    IN List(IF dependencies = <<>> THEN default_dependencies ELSE dependencies)

-----------------------------------------------------------------------------
(* wizard_data.py: build_wizard_payload *)

\* payload["initiative"]["deployment_strategy"]
payload_deployment_strategy(ss) == Get(ss, <<"_wizard_", "deployment_strategy">>, EmptyStr)

\* payload["initiative"]["category"]
payload_category(ss) == Get(ss, <<"_wizard_", "category">>, EmptyStr)

build_initiative(ss) ==
    MkDict(<<
      <<K("author"), Get(ss, <<"_wizard_", "author">>, EmptyStr)>>,
      <<K("title"), Get(ss, <<"_wizard_", "automation_title">>, EmptyStr)>>,
      <<K("description"), Get(ss, <<"_wizard_", "automation_description">>, EmptyStr)>>,
      <<K("category"), payload_category(ss)>>,
      <<K("category_other"), Get(ss, <<"_wizard_", "category_other">>, EmptyStr)>>,
      <<K("problem_statement"), Get(ss, <<"_wizard_", "problem_statement">>, EmptyStr)>>,
      <<K("expected_use"), Get(ss, <<"_wizard_", "expected_use">>, EmptyStr)>>,
      <<K("error_conditions"), Get(ss, <<"_wizard_", "error_conditions">>, EmptyStr)>>,
      <<K("assumptions"), Get(ss, <<"_wizard_", "assumptions">>, EmptyStr)>>,
      <<K("deployment_strategy"), payload_deployment_strategy(ss)>>,
      <<K("deployment_strategy_other"),
        Get(ss, <<"_wizard_", "deployment_strategy_other">>, EmptyStr)>>,
      <<K("deployment_strategy_description"),
        Get(ss, <<"_wizard_", "deployment_strategy_description">>, EmptyStr)>>,
      <<K("out_of_scope"), Get(ss, <<"_wizard_", "out_of_scope">>, EmptyStr)>>,
      <<K("no_move_forward"), Get(ss, K("no_move_forward"), EmptyStr)>>,
      <<K("no_move_forward_reasons"), Get(ss, K("no_move_forward_reasons"), EmptyList)>> >>)

build_my_role(ss) ==
    MkDict(<<
      <<K("who"), Get(ss, <<"my_role_", "who">>, EmptyStr)>>,
      <<K("skills"), Get(ss, <<"my_role_", "skills">>, EmptyStr)>>,
      <<K("developer"), Get(ss, <<"my_role_", "dev">>, EmptyStr)>> >>)

build_stakeholders(ss) ==
    MkDict(<<
      <<K("choices"), Get(ss, <<"stakeholders_", "choices">>, EmptyDict)>>,
      <<K("other"),
        Str(Strip(Or(Get(ss, <<"stakeholders_", "other_text">>, None), EmptyStr)[2]))>> >>)

\* build_wizard_payload with the stakeholders section left out when the
\* snapshot holds no stakeholder choices
build_wizard_payload_sparse(ss) ==
    LET timeline == build_timeline_data(ss)
        stakeholders ==
            IF HasKey(ss, <<"stakeholders_", "choices">>)
            THEN << <<K("stakeholders"), build_stakeholders(ss)>> >>
            ELSE <<>>
    IN IF IsRaised(timeline) THEN timeline
       ELSE MkDict(<< <<K("initiative"), build_initiative(ss)>>,
                      <<K("my_role"), build_my_role(ss)>> >>
                   \o stakeholders
                   \o << <<K("presentation"), build_presentation_data(ss)>>,
                         <<K("intent"), build_intent_data(ss)>>,
                         <<K("observability"), build_observability_data(ss)>>,
                         <<K("orchestration"), build_orchestration_data(ss)>>,
                         <<K("collector"), build_collector_data(ss)>>,
                         <<K("executor"), build_executor_data(ss)>>,
                         <<K("dependencies"), build_dependencies_data(ss)>>,
                         <<K("timeline"), timeline>> >>)

\* the document, or the exception _build_timeline_data raised
build_wizard_payload(ss) ==
    LET timeline == build_timeline_data(ss)
    IN IF IsRaised(timeline) THEN timeline
       ELSE MkDict(<<
              <<K("initiative"), build_initiative(ss)>>,
              <<K("my_role"), build_my_role(ss)>>,
              <<K("stakeholders"), build_stakeholders(ss)>>,
              <<K("presentation"), build_presentation_data(ss)>>,
              <<K("intent"), build_intent_data(ss)>>,
              <<K("observability"), build_observability_data(ss)>>,
              <<K("orchestration"), build_orchestration_data(ss)>>,
              <<K("collector"), build_collector_data(ss)>>,
              <<K("executor"), build_executor_data(ss)>>,
              <<K("dependencies"), build_dependencies_data(ss)>>,
              <<K("timeline"), timeline>> >>)

-----------------------------------------------------------------------------
(* wizard_data.py: restore_session_state_from_data *)

\* the keys of deployment_strategies.yml (the file is not part of the sources;
\* the names are those the tests and the specification use)
deploy_options == <<K("Canary"), K("Blue-Green"), K("Centralized")>>

\* the keys of use_case_categories.yml (likewise)
category_options ==
    <<K("Device Onboarding"), K("Configuration Management"), K("Network Monitoring")>>

\* the placeholder "— Select a deployment strategy —"
DeployPlaceholder == Lit("-- Select a deployment strategy --")

\* the placeholder "— Select a category —"
CategoryPlaceholder == Lit("-- Select a category --")

\* v in options, for a list of raw strings
InOptions(v, options) == IsStr(v) /\ \E i \in 1..Len(options) : options[i] = v[2]

\* if sect.get(key) is not None: updates[target] = str(sect.get(key) or "")
restore_str(u, sect, key, target) ==
    IF ~IsNone(Get(sect, key, None))
    THEN Put(u, target, PyStr(Or(Get(sect, key, None), EmptyStr)))
    ELSE u

\* a variant of the deployment-strategy branch that files the placeholder under
\* "Other" like any other text outside the catalog
restore_deployment_strategy_no_placeholder(u, ini) ==
    IF ~IsNone(Get(ini, K("deployment_strategy"), None))
    THEN LET deploy_strategy == PyStr(Or(Get(ini, K("deployment_strategy"), None), EmptyStr))
         IN IF InOptions(deploy_strategy, deploy_options)
            THEN Put(Put(u, <<"_wizard_", "deployment_strategy">>, deploy_strategy),
                     <<"_wizard_", "deployment_strategy_other">>, EmptyStr)
            ELSE IF Truthy(deploy_strategy)
            THEN Put(Put(u, <<"_wizard_", "deployment_strategy">>, Lit("Other")),
                     <<"_wizard_", "deployment_strategy_other">>, deploy_strategy)
            ELSE Put(Put(u, <<"_wizard_", "deployment_strategy">>, DeployPlaceholder),
                     <<"_wizard_", "deployment_strategy_other">>, EmptyStr)
    ELSE u

\* the deployment-strategy branch
restore_deployment_strategy(u, ini) ==
    IF ~IsNone(Get(ini, K("deployment_strategy"), None))
    THEN LET deploy_strategy == PyStr(Or(Get(ini, K("deployment_strategy"), None), EmptyStr))
         IN IF InOptions(deploy_strategy, deploy_options)
            THEN Put(Put(u, <<"_wizard_", "deployment_strategy">>, deploy_strategy),
                     <<"_wizard_", "deployment_strategy_other">>, EmptyStr)
            ELSE IF Truthy(deploy_strategy) /\ deploy_strategy # DeployPlaceholder
            THEN Put(Put(u, <<"_wizard_", "deployment_strategy">>, Lit("Other")),
                     <<"_wizard_", "deployment_strategy_other">>, deploy_strategy)
            ELSE Put(Put(u, <<"_wizard_", "deployment_strategy">>, DeployPlaceholder),
                     <<"_wizard_", "deployment_strategy_other">>, EmptyStr)
    ELSE u

\* a variant of "Restore category" that restores the placeholder for an empty
\* category
restore_category_placeholder(u, ini) ==
    IF ~IsNone(Get(ini, K("category"), None))
    THEN LET category_value == Get(ini, K("category"), None)
         IN IF InOptions(category_value, category_options)
            THEN Put(Put(u, <<"_wizard_", "category">>, category_value),
                     <<"_wizard_", "category_other">>, EmptyStr)
            ELSE IF category_value = EmptyStr
            THEN Put(Put(u, <<"_wizard_", "category">>, CategoryPlaceholder),
                     <<"_wizard_", "category_other">>, EmptyStr)
            ELSE Put(Put(u, <<"_wizard_", "category">>, Lit("Other")),
                     <<"_wizard_", "category_other">>, category_value)
    ELSE u

\* "Restore category"
restore_category(u, ini) ==
    IF ~IsNone(Get(ini, K("category"), None))
    THEN LET category_value == Get(ini, K("category"), None)
         IN IF InOptions(category_value, category_options)
            THEN Put(Put(u, <<"_wizard_", "category">>, category_value),
                     <<"_wizard_", "category_other">>, EmptyStr)
            ELSE Put(Put(u, <<"_wizard_", "category">>, Lit("Other")),
                     <<"_wizard_", "category_other">>, category_value)
    ELSE u

\* no_move_forward_reasons
restore_reasons(u, ini) ==
    IF ~IsNone(Get(ini, K("no_move_forward_reasons"), None))
    THEN LET r == Or(Get(ini, K("no_move_forward_reasons"), EmptyList), EmptyList)
         IN Put(u, K("no_move_forward_reasons"), IF IsList(r) THEN r ELSE EmptyList)
    ELSE u

\* "Extract initiative data" and "Restore category"
restore_initiative(u, ini) ==
    LET u1 == restore_str(u, ini, K("title"), <<"_wizard_", "automation_title">>)
        u2 == restore_str(u1, ini, K("description"), <<"_wizard_", "automation_description">>)
        u3 == restore_str(u2, ini, K("problem_statement"), <<"_wizard_", "problem_statement">>)
        u4 == restore_str(u3, ini, K("expected_use"), <<"_wizard_", "expected_use">>)
        u5 == restore_str(u4, ini, K("error_conditions"), <<"_wizard_", "error_conditions">>)
        u6 == restore_str(u5, ini, K("assumptions"), <<"_wizard_", "assumptions">>)
        u7 == restore_deployment_strategy(u6, ini)
        u8 == restore_str(u7, ini, K("deployment_strategy_description"),
                          <<"_wizard_", "deployment_strategy_description">>)
        u9 == restore_str(u8, ini, K("out_of_scope"), <<"_wizard_", "out_of_scope">>)
        u10 == restore_str(u9, ini, K("no_move_forward"), K("no_move_forward"))
        u11 == restore_reasons(u10, ini)
    IN restore_category(u11, ini)

\* "Restore stakeholders" keeping only the categories of the current catalog
restore_stakeholders_catalog(u, data) ==
    LET stakeholders == Get(data, K("stakeholders"), EmptyDict)
        choices == IF IsDict(stakeholders) THEN Get(stakeholders, K("choices"), None)
                   ELSE None
        kept == IF IsDict(choices)
                THEN Dict(SelectSeq(choices[2],
                                    LAMBDA entry : entry[1] = K("Network Engineering")))
                ELSE EmptyDict
        other == IF IsDict(stakeholders) THEN Get(stakeholders, K("other"), None) ELSE None
    IN Put(Put(u, <<"stakeholders_", "choices">>, kept),
           <<"stakeholders_", "other_text">>,
           IF ~IsNone(other) THEN PyStr(Or(other, EmptyStr)) ELSE EmptyStr)

\* "Restore stakeholders"
restore_stakeholders(u, data) ==
    LET stakeholders == Get(data, K("stakeholders"), EmptyDict)
    IN IF ~IsNone(stakeholders) /\ IsDict(stakeholders)
       THEN LET choices == Get(stakeholders, K("choices"), None)
                u1 == Put(u, <<"stakeholders_", "choices">>,
                          IF ~IsNone(choices) /\ IsDict(choices) THEN choices ELSE EmptyDict)
            IN Put(u1, <<"stakeholders_", "other_text">>,
                   IF ~IsNone(Get(stakeholders, K("other"), None))
                   THEN PyStr(Or(Get(stakeholders, K("other"), None), EmptyStr))
                   ELSE EmptyStr)
       ELSE Put(Put(u, <<"stakeholders_", "choices">>, EmptyDict),
                <<"stakeholders_", "other_text">>, EmptyStr)

\* "Restore my role"
restore_my_role(u, data) ==
    LET my_role == Or(Get(data, K("my_role"), EmptyDict), EmptyDict)
        u1 == restore_str(u, my_role, K("who"), <<"my_role_", "who">>)
        u2 == restore_str(u1, my_role, K("skills"), <<"my_role_", "skills">>)
    IN restore_str(u2, my_role, K("developer"), <<"my_role_", "dev">>)

RECURSIVE set_flags(_, _, _)
\* for x in items: updates[f"{prefix}{x}"] = True
set_flags(u, prefix, items) ==
    IF items = <<>> THEN u
    ELSE set_flags(Put(u, prefix \o PyStr(Head(items))[2], Bool(TRUE)), prefix, Tail(items))

\* if sel.get(key) and isinstance(sel.get(key), list): one flag per option
restore_flags(u, sel, key, prefix) ==
    LET v == Get(sel, key, None)
    IN IF Truthy(v) /\ IsList(v) THEN set_flags(u, prefix, v[2]) ELSE u

\* "Restore presentation"
restore_presentation(u, data) ==
    LET pres == Or(Get(data, K("presentation"), EmptyDict), EmptyDict)
        pres_sel == Or(Get(pres, K("selections"), EmptyDict), EmptyDict)
        u1 == restore_flags(u, pres_sel, K("users"), <<"pres_", "user_">>)
        u2 == restore_flags(u1, pres_sel, K("interactions"), <<"pres_", "interact_">>)
        u3 == restore_flags(u2, pres_sel, K("tools"), <<"pres_", "tool_">>)
    IN restore_flags(u3, pres_sel, K("auth"), <<"pres_", "auth_">>)

\* "Restore intent"
restore_intent(u, data) ==
    LET intent == Or(Get(data, K("intent"), EmptyDict), EmptyDict)
        intent_sel == Or(Get(intent, K("selections"), EmptyDict), EmptyDict)
        u1 == restore_flags(u, intent_sel, K("development"), <<"intent_", "dev_">>)
    IN restore_flags(u1, intent_sel, K("provided"), <<"intent_", "prov_">>)

\* "Restore observability"
restore_observability(u, data) ==
    LET obs == Or(Get(data, K("observability"), EmptyDict), EmptyDict)
        obs_sel == Or(Get(obs, K("selections"), EmptyDict), EmptyDict)
        u1 == restore_flags(u, obs_sel, K("methods"), <<"obs_", "state_">>)
        u2 == restore_flags(u1, obs_sel, K("tools"), <<"obs_", "tool_">>)
        u3 == restore_str(u2, obs, K("go_no_go"), <<"obs_", "go_no_go">>)
        u4 == restore_str(u3, obs_sel, K("additional_logic_choice"),
                          <<"obs_", "add_logic_choice">>)
    IN restore_str(u4, obs_sel, K("additional_logic_text"), <<"obs_", "add_logic_text">>)

\* "Restore orchestration"
restore_orchestration(u, data) ==
    LET orch == Or(Get(data, K("orchestration"), EmptyDict), EmptyDict)
        orch_sel == Or(Get(orch, K("selections"), EmptyDict), EmptyDict)
        u1 == restore_str(u, orch_sel, K("choice"), <<"orch_", "choice">>)
    IN restore_str(u1, orch_sel, K("details"), <<"orch_", "details_text">>)

\* "Restore collector"
restore_collector(u, data) ==
    LET coll == Or(Get(data, K("collector"), EmptyDict), EmptyDict)
        coll_sel == Or(Get(coll, K("selections"), EmptyDict), EmptyDict)
        u1 == restore_flags(u, coll_sel, K("methods"), <<"collector_", "method_">>)
        u2 == restore_flags(u1, coll_sel, K("auth"), <<"collector_", "auth_">>)
        u3 == restore_flags(u2, coll_sel, K("handling"), <<"collector_", "handle_">>)
        u4 == restore_flags(u3, coll_sel, K("normalization"), <<"collector_", "norm_">>)
        u5 == restore_flags(u4, coll_sel, K("tools"), <<"collection_tool_">>)
        u6 == restore_str(u5, coll_sel, K("devices"), <<"collector_", "devices">>)
        u7 == restore_str(u6, coll_sel, K("metrics_per_sec"), <<"collector_", "metrics">>)
    IN restore_str(u7, coll_sel, K("cadence"), <<"collector_", "cadence">>)

RECURSIVE set_exec_flags(_, _, _)
\* for i, method in enumerate(methods): updates[f"exec_{i}"] = True
set_exec_flags(u, i, methods) ==
    IF methods = <<>> THEN u
    ELSE set_exec_flags(Put(u, <<"exec_", ToString(i)>>, Bool(TRUE)), i + 1, Tail(methods))

\* "Restore executor"
restore_executor(u, data) ==
    LET exec_data == Or(Get(data, K("executor"), EmptyDict), EmptyDict)
        exec_sel == Or(Get(exec_data, K("selections"), EmptyDict), EmptyDict)
        methods == Get(exec_sel, K("methods"), None)
    IN IF Truthy(methods) /\ IsList(methods) THEN set_exec_flags(u, 0, methods[2]) ELSE u

RECURSIVE set_dependencies(_, _)
set_dependencies(u, deps) ==
    IF deps = <<>> THEN u
    ELSE LET dep == Head(deps)
             name == Get(dep, K("name"), None)
             details == Get(dep, K("details"), None)
             u1 == Put(u, <<"dep_">> \o PyStr(name)[2], Bool(TRUE))
             u2 == IF Truthy(details)
                   THEN Put(u1, <<"dep_">> \o PyStr(name)[2] \o <<"_details">>,
                            PyStr(Or(details, EmptyStr)))
                   ELSE u1
         IN set_dependencies(IF Truthy(name) THEN u2 ELSE u, Tail(deps))

\* "Restore dependencies"
restore_dependencies(u, data) ==
    set_dependencies(u, Or(Get(data, K("dependencies"), EmptyList), EmptyList)[2])


\* one restored milestone record, or the exception int() raised
restore_milestone(item) ==
    LET duration_bd == int(Get(item, K("duration_bd"), IntV(0)))
    IN IF IsRaised(duration_bd) THEN duration_bd
       ELSE MkDict(<< <<K("name"), PyStr(Get(item, K("name"), EmptyStr))>>,
                      <<K("duration_bd"), duration_bd>>,
                      <<K("notes"), PyStr(Get(item, K("notes"), EmptyStr))>> >>)

\* the milestones list built from tl["items"], or the first exception
restore_milestones(items) ==
    LET ms == [i \in 1..Len(items) |-> restore_milestone(items[i])]
    IN IF \E i \in 1..Len(ms) : IsRaised(ms[i])
       THEN ms[CHOOSE i \in 1..Len(ms) :
                  IsRaised(ms[i]) /\ \A j \in 1..(i - 1) : ~IsRaised(ms[j])]
       ELSE List(ms)

\* try: strptime(tl.get("start_date"), "%Y-%m-%d").date()  except Exception: pass
restore_start_date(u, tl) ==
    LET v == Get(tl, K("start_date"), None)
        parsed == IF IsStr(v) THEN strptime(v[2]) ELSE Raised("TypeError")
    IN IF ~IsNone(v) /\ ~IsRaised(parsed)
       THEN Put(u, K("timeline_start_date"), parsed)
       ELSE u

\* "Restore timeline": the updates, or the exception an int() raised
restore_timeline(u, data) ==
    LET tl == Or(Get(data, K("timeline"), EmptyDict), EmptyDict)
        has_staff == ~IsNone(Get(tl, K("staff_count"), None))
        staff == int(Or(Get(tl, K("staff_count"), None), IntV(0)))
        has_ext == ~IsNone(Get(tl, K("external_staff_count"), None))
        ext == int(Or(Get(tl, K("external_staff_count"), None), IntV(0)))
        items == Get(tl, K("items"), None)
        has_items == Truthy(items) /\ IsList(items)
        milestones == restore_milestones(items[2])
        u1 == restore_str(u, tl, K("build_buy"), K("timeline_build_buy"))
        u2 == IF has_staff THEN Put(u1, K("timeline_staff_count"), staff) ELSE u1
        u3 == IF has_ext THEN Put(u2, K("timeline_external_staff_count"), ext) ELSE u2
        u4 == restore_str(u3, tl, K("staffing_plan_md"), K("timeline_staffing_plan"))
        u5 == restore_str(u4, tl, K("holiday_region"), K("timeline_holiday_region"))
        u6 == restore_start_date(u5, tl)
    IN IF has_staff /\ IsRaised(staff) THEN staff
       ELSE IF has_ext /\ IsRaised(ext) THEN ext
       ELSE IF has_items /\ IsRaised(milestones) THEN milestones
       ELSE IF has_items THEN Put(u6, K("timeline_milestones"), milestones)
       ELSE u6

\* the updates dict, or the exception the call raised
restore_session_state_from_data(data) ==
    LET ini == Get(data, K("initiative"), EmptyDict)
        u1 == restore_initiative(EmptyDict, ini)
        u2 == restore_stakeholders(u1, data)
        u3 == restore_my_role(u2, data)
        u4 == restore_presentation(u3, data)
        u5 == restore_intent(u4, data)
        u6 == restore_observability(u5, data)
        u7 == restore_orchestration(u6, data)
        u8 == restore_collector(u7, data)
        u9 == restore_executor(u8, data)
        u10 == restore_dependencies(u9, data)
    IN \* the sections run in this order; an exception raised by one ends the call
       CASE ~IsDict(ini) -> Raised("AttributeError")
         [] IsRaised(u1) -> u1
         [] IsRaised(u2) -> u2
         [] IsRaised(u3) -> u3
         [] IsRaised(u4) -> u4
         [] IsRaised(u5) -> u5
         [] IsRaised(u6) -> u6
         [] IsRaised(u7) -> u7
         [] IsRaised(u8) -> u8
         [] IsRaised(u9) -> u9
         [] IsRaised(u10) -> u10
         [] OTHER -> restore_timeline(u10, data)

-----------------------------------------------------------------------------
(* Inputs drawn by the specifications *)

\* 2023-12-29, a Friday; the start dates drawn follow it
FirstStart == ToOrdinal(2023, 12, 29)

StartOrdinals == {FirstStart + i : i \in 0..(StartDates - 1)}

\* the durations drawn for a milestone
Durations == {0, 5, 10}

\* the names drawn for a milestone
MilestoneNames == {<<>>, <<"Planning">>}

\* a milestone as <<name, duration, notes>>
Milestones == MilestoneNames \X Durations \X {<<>>}

MilestoneLists == UNION {[1..n -> Milestones] : n \in 0..MaxMilestones}

\* timeline_milestones as wizard_data reads it
wd_rows(ml) ==
    List([i \in 1..Len(ml) |->
            MkDict(<< <<K("name"), Str(ml[i][1])>>,
                      <<K("duration_bd"), IntV(ml[i][2])>>,
                      <<K("notes"), Str(ml[i][3])>> >>)])

\* timeline_milestones as the page keeps it
page_rows(ml) ==
    List([i \in 1..Len(ml) |->
            MkDict(<< <<K("name"), Str(ml[i][1])>>,
                      <<K("duration"), IntV(ml[i][2])>>,
                      <<K("notes"), Str(ml[i][3])>> >>)])

\* the holiday sets drawn: none, New Year's Day 2024, and 2024-01-15
HolidaySets == {{}, {ToOrdinal(2024, 1, 1)}, {ToOrdinal(2024, 1, 1), ToOrdinal(2024, 1, 15)}}

-----------------------------------------------------------------------------
(* wizard_data.py: what the two calls write into their argument *)

\* a builder that fills the defaults it reads into the snapshot it was given
build_writes_defaults(ss) ==
    << <<K("timeline_start_date"), Today>>,
       <<K("timeline_build_buy"), Lit("Build In-House")>> >>

\* the item assignments build_wizard_payload and its helpers make on
\* session_state or on a value reached through it: none. session_state is
\* read with .get() and .items() only; every append and extend (lines 302-308,
\* 339-341, 364, 431-439, 454-458, 490, 511, 558) acts on a list the call
\* created, and "total_bd += duration" (546) rebinds a local integer
build_writes(ss) == <<>>

\* the keys restore_session_state_from_data deletes from data: none. Every
\* item assignment of the function (lines 603-807) has the local dict updates
\* (created at line 598) as its target; data and the values in it are read
\* with .get() and iterated, never assigned to
restore_writes(data) == {}

\* the snapshot after build_wizard_payload has returned or raised
snapshot_after_build(ss) == PutAll(ss, build_writes(ss))

\* the document after restore_session_state_from_data has returned or raised
document_after_restore(data) ==
    Dict(SelectSeq(data[2], LAMBDA entry : entry[1] \notin restore_writes(data)))

-----------------------------------------------------------------------------
(* SpecTimeline: both timeline builders on the same start date and milestones *)

TimelineInit ==
    \E start \in StartOrdinals, ml \in MilestoneLists, hs \in HolidaySets,
       as_text \in BOOLEAN :
        /\ session_state =
             MkDict(<< <<K("timeline_start_date"),
                         IF as_text THEN Str(strftime(start)) ELSE Date(start)>>,
                       <<K("timeline_milestones"), wd_rows(ml)>> >>)
        /\ page_state =
             MkDict(<< <<K("timeline_start_date"), Date(start)>>,
                       <<K("timeline_milestones"), page_rows(ml)>> >>)
        /\ holiday_set = hs
        /\ payload = Unset
        /\ page_timeline = Unset
        /\ updates = Unset
        /\ payload2 = Unset
        /\ pc = "timeline"
        /\ bd_args = Unset
        /\ bd_result = Unset
        /\ sentence_args = Unset
        /\ sentence = Unset
        /\ any_content = Unset

\* wizard_data.build_wizard_payload(session_state)
BuildTimeline ==
    /\ pc = "timeline"
    /\ payload = Unset
    /\ payload' = build_wizard_payload(session_state)
    /\ session_state' = snapshot_after_build(session_state)
    /\ UNCHANGED <<updates, payload2, pc, page_state, holiday_set,
                   page_timeline, bd_args, bd_result,
                   sentence_args, sentence,
                   any_content>>

\* the page's timeline section run on page_state
PageBuildTimeline ==
    /\ pc = "timeline"
    /\ page_timeline = Unset
    /\ page_timeline' = page_build_timeline(page_state, holiday_set)
    /\ UNCHANGED <<session_state, payload, updates, payload2, pc, page_state,
                   holiday_set, bd_args, bd_result,
                   sentence_args, sentence,
                   any_content>>

TimelineNext == BuildTimeline \/ PageBuildTimeline

SpecTimeline == TimelineInit /\ [][TimelineNext]_vars

-----------------------------------------------------------------------------
(* SpecBD: _add_business_days on drawn arguments *)

\* the holidays drawn: subsets of the three days after the first start date's
\* weekend and the Wednesday after
BDHolidayDays == {FirstStart + 3, FirstStart + 4, FirstStart + 6}

BDInit ==
    \E d \in StartOrdinals, n \in 0..MaxBusinessDays, hs \in SUBSET BDHolidayDays :
        /\ bd_args = <<d, IntV(n), hs>>
        /\ bd_result = Unset
        /\ sentence_args = Unset
        /\ sentence = Unset
        /\ any_content = Unset
        /\ session_state = Unset
        /\ payload = Unset
        /\ updates = Unset
        /\ payload2 = Unset
        /\ pc = "bd"
        /\ page_state = Unset
        /\ holiday_set = {}
        /\ page_timeline = Unset

AddBusinessDays ==
    /\ pc = "bd"
    /\ bd_result = Unset
    /\ bd_result' = add_business_days(bd_args[1], bd_args[2], bd_args[3])
    /\ UNCHANGED <<session_state, payload, updates, payload2, pc, page_state,
                   holiday_set, page_timeline, bd_args,
                   sentence_args, sentence,
                   any_content>>

BDNext == AddBusinessDays

SpecBD == BDInit /\ [][BDNext]_vars

-----------------------------------------------------------------------------
(* Spec: build_wizard_payload, restore_session_state_from_data and the      *)
(* build of what was restored, on drawn snapshots and uploaded documents     *)

\* "the key is not in the mapping"
Absent == <<"absent">>

\* the entry of a dict under construction: none when the value is Absent
Entry(key, value) == IF value = Absent THEN <<>> ELSE << <<key, value>> >>

CategoryChoices ==
    {Absent, EmptyStr, CategoryPlaceholder, Lit("Device Onboarding"), Lit("Other")}

DeployChoices == {Absent, EmptyStr, DeployPlaceholder, Lit("Canary"), Lit("Other")}

RoleChoices == {Absent, SelectOne, Lit("I'm a network engineer.")}

OrchChoices == {Absent, SelectOne, Lit("No")}

\* snapshots that vary the single-choice fields of the initiative, the role
\* and the orchestration sections
InitiativeSnapshots ==
    {Dict(Entry(<<"_wizard_", "automation_title">>, Lit("Test Project"))
          \o Entry(<<"_wizard_", "category">>, cat)
          \o Entry(<<"_wizard_", "category_other">>, cat_other)
          \o Entry(<<"_wizard_", "deployment_strategy">>, dep)
          \o Entry(<<"_wizard_", "deployment_strategy_other">>, dep_other)
          \o Entry(<<"my_role_", "who">>, who)
          \o Entry(<<"orch_", "choice">>, orch)) :
        cat \in CategoryChoices, cat_other \in {EmptyStr, Lit("My Category")},
        dep \in DeployChoices, dep_other \in {EmptyStr, Lit("My own Strategy")},
        who \in RoleChoices, orch \in OrchChoices}

\* an option checkbox: not there, unticked or ticked
Tick == {Absent, Bool(FALSE), Bool(TRUE)}

\* snapshots that vary one checkbox group, the executor and the dependencies
CheckboxSnapshots ==
    {Dict(Entry(<<"pres_", "user_", "Network Engineers">>, a)
          \o Entry(<<"pres_", "user_", "Operations">>, b)
          \o Entry(<<"pres_", "user_", "custom_enable">>, en)
          \o Entry(<<"pres_", "user_", "custom">>, txt)
          \o Entry(<<"exec_", "0">>, e0)
          \o Entry(<<"exec_", "1">>, e1)
          \o Entry(<<"exec_", "custom_enable">>, xen)
          \o Entry(<<"exec_", "custom_text">>, Str(<<"Ansible", Comma, Space, "NETCONF">>))
          \o Entry(<<"dep_", "network_infra">>, d1)
          \o Entry(<<"dep_", "revision_control">>, d2)
          \o Entry(<<"dep_", "revision_control", "_details">>, Lit("GitHub"))) :
        a \in {Absent, Bool(TRUE)}, b \in Tick, en \in Tick,
        txt \in {EmptyStr, Lit("Auditors"), Lit("Operations")},
        e0 \in {Absent, Bool(TRUE)}, e1 \in {Absent, Bool(TRUE)},
        xen \in {Bool(FALSE), Bool(TRUE)},
        d1 \in {Absent, Bool(TRUE)}, d2 \in {Absent, Bool(TRUE)}}

\* snapshots that vary the timeline
TimelineSnapshots ==
    {MkDict(<< <<K("timeline_start_date"),
                 IF as_text THEN Str(strftime(start)) ELSE Date(start)>>,
               <<K("timeline_staff_count"), IntV(2)>>,
               <<K("timeline_milestones"), wd_rows(ml)>> >>) :
        start \in StartOrdinals, ml \in MilestoneLists, as_text \in BOOLEAN}

\* the values an uploaded document holds for initiative.category
UploadCategories ==
    {Absent, None, EmptyStr, CategoryPlaceholder, Lit("Device Onboarding"),
     Lit("My Category")}

\* the values an uploaded document holds for initiative.deployment_strategy
UploadStrategies ==
    {Absent, None, EmptyStr, DeployPlaceholder, Lit("Canary"), Lit("My own Strategy")}

\* uploaded documents: an initiative section, and a timeline or none
UploadedDocuments ==
    {Dict(<< <<K("initiative"),
               Dict(Entry(K("title"), Lit("Test Project"))
                    \o Entry(K("deployment_strategy"), dep)
                    \o Entry(K("category"), cat))>> >>
          \o Entry(K("timeline"), tl)) :
        cat \in UploadCategories, dep \in UploadStrategies,
        tl \in {Absent, None, MkDict(<< <<K("start_date"), Str(IsoText(2024, 1, 1))>> >>)}}

Init ==
    /\ \/ /\ session_state \in
                InitiativeSnapshots \cup CheckboxSnapshots \cup TimelineSnapshots
          /\ payload = Unset
          /\ pc = "start"
       \/ /\ session_state = Unset
          /\ payload \in UploadedDocuments
          /\ pc = "uploaded"
    /\ updates = Unset
    /\ payload2 = Unset
    /\ page_state = Unset
    /\ holiday_set = {}
    /\ page_timeline = Unset
    /\ bd_args = Unset
    /\ bd_result = Unset
    /\ sentence_args = Unset
    /\ sentence = Unset
    /\ any_content = Unset

\* payload = build_wizard_payload(session_state)
Build ==
    /\ pc = "start"
    /\ payload' = build_wizard_payload(session_state)
    /\ session_state' = snapshot_after_build(session_state)
    /\ pc' = "built"
    /\ UNCHANGED <<updates, payload2, page_state, holiday_set,
                   page_timeline, bd_args, bd_result,
                   sentence_args, sentence,
                   any_content>>

\* updates = restore_session_state_from_data(payload)
Restore ==
    /\ pc \in {"built", "uploaded"}
    /\ ~IsRaised(payload)
    /\ updates' = restore_session_state_from_data(payload)
    /\ payload' = document_after_restore(payload)
    /\ pc' = IF pc = "built" THEN "restored" ELSE "restored_upload"
    /\ UNCHANGED <<session_state, payload2, page_state, holiday_set,
                   page_timeline, bd_args, bd_result,
                   sentence_args, sentence,
                   any_content>>

\* payload2 = build_wizard_payload(updates)
Rebuild ==
    /\ pc \in {"restored", "restored_upload"}
    /\ ~IsRaised(updates)
    /\ payload2' = build_wizard_payload(updates)
    /\ updates' = snapshot_after_build(updates)
    /\ pc' = IF pc = "restored" THEN "rebuilt" ELSE "rebuilt_upload"
    /\ UNCHANGED <<session_state, payload, page_state, holiday_set,
                   page_timeline, bd_args, bd_result,
                   sentence_args, sentence,
                   any_content>>

Next == Build \/ Restore \/ Rebuild

Spec == Init /\ [][Next]_vars

-----------------------------------------------------------------------------
(* Properties of the schedule, checked under SpecTimeline and SpecBD *)

\* the timeline section of a document, and its items
TimelineOf(doc) == Get(doc, K("timeline"), None)

ItemsOf(timeline) == Get(timeline, K("items"), EmptyList)[2]

ItemStart(item) == Get(item, K("start"), None)

ItemEnd(item) == Get(item, K("end"), None)

ItemDuration(item) == Get(item, K("duration_bd"), None)[2]

ItemName(item) == Get(item, K("name"), None)

RECURSIVE SumDurations(_)
SumDurations(items) ==
    IF items = <<>> THEN 0 ELSE ItemDuration(Head(items)) + SumDurations(Tail(items))

\* build_wizard_payload has returned a document
WdBuilt == pc = "timeline" /\ payload # Unset /\ ~IsRaised(payload)

\* the page has built its timeline
PageBuilt == pc = "timeline" /\ page_timeline # Unset

\* the start date the snapshot holds, as text
SnapshotStart ==
    LET raw == Get(session_state, K("timeline_start_date"), None)
    IN IF IsDate(raw) THEN Str(strftime(raw[2])) ELSE raw

\* the durations the snapshot's milestones hold, in order
SnapshotDurations ==
    LET rows == Get(session_state, K("timeline_milestones"), EmptyList)[2]
    IN [i \in 1..Len(rows) |-> Get(rows[i], K("duration_bd"), None)[2]]

\* start of the first item = D, start of each later item = end of the one
\* before, end = add_business_days(start, duration_bd)
ScheduleChained(timeline, D, holidays) ==
    LET items == ItemsOf(timeline)
    IN /\ items # <<>> => ItemStart(items[1]) = D
       /\ \A i \in 2..Len(items) : ItemStart(items[i]) = ItemEnd(items[i - 1])
       /\ \A i \in 1..Len(items) :
            ItemEnd(items[i]) =
              Str(strftime(add_business_days(strptime(ItemStart(items[i])[2])[2],
                                             IntV(ItemDuration(items[i])),
                                             holidays)[2]))

\* C6: in the schedule build_wizard_payload emits for a start date D and an
\* ordered milestone list, the first milestone starts on D, every later one
\* starts on the end of the one before, and every end is
\* add_business_days(start, duration_bd); for D = 2024-01-01 and durations 5
\* and 10 the ends are 2024-01-08 and 2024-01-22.
C6_ScheduleChained ==
    WdBuilt =>
      /\ ScheduleChained(TimelineOf(payload), SnapshotStart, {})
      /\ (SnapshotStart = Str(IsoText(2024, 1, 1)) /\ SnapshotDurations = <<5, 10>>) =>
           LET items == ItemsOf(TimelineOf(payload))
           IN /\ ItemEnd(items[1]) = Str(IsoText(2024, 1, 8))
              /\ ItemEnd(items[2]) = Str(IsoText(2024, 1, 22))

\* the case C6 names has been built: 2024-01-01 with durations 5 and 10
C6_ExampleBuilt ==
    /\ WdBuilt
    /\ SnapshotStart = Str(IsoText(2024, 1, 1))
    /\ SnapshotDurations = <<5, 10>>

\* C8: a milestone of duration 0 is scheduled by build_wizard_payload with
\* end = start, and the next milestone starts on that same date.
C8_ZeroDurationStays ==
    WdBuilt =>
      LET items == ItemsOf(TimelineOf(payload))
      IN \A i \in 1..Len(items) :
           ItemDuration(items[i]) = 0 =>
             /\ ItemEnd(items[i]) = ItemStart(items[i])
             /\ i < Len(items) => ItemStart(items[i + 1]) = ItemStart(items[i])

\* a snapshot with a milestone of duration 0 has been built
C8_ZeroDurationBuilt == WdBuilt /\ \E i \in DOMAIN SnapshotDurations : SnapshotDurations[i] = 0

\* C9: a milestone whose duration is 0 and whose name is empty is not in
\* timeline.items of the document build_wizard_payload returns.
C9_BlankRowsSkipped ==
    WdBuilt =>
      LET items == ItemsOf(TimelineOf(payload))
      IN \A i \in 1..Len(items) :
           ~(ItemDuration(items[i]) = 0 /\ ItemName(items[i]) = EmptyStr)

\* total_business_days = sum of the items' durations, projected_completion =
\* the last item's end, or None when there is no item
TotalsAgree(timeline) ==
    LET items == ItemsOf(timeline)
    IN /\ Get(timeline, K("total_business_days"), None) = IntV(SumDurations(items))
       /\ Get(timeline, K("projected_completion"), Unset) =
            IF items = <<>> THEN None ELSE ItemEnd(items[Len(items)])

\* C10: in every document either builder produces, total_business_days is the
\* sum of the durations of the emitted milestones and projected_completion is
\* the end of the last emitted milestone, or null when none is emitted.
C10_Totals ==
    /\ WdBuilt => TotalsAgree(TimelineOf(payload))
    /\ PageBuilt => TotalsAgree(page_timeline)

\* both builders have run on two milestones of different ends, and the page
\* has left a blank row out
C10_TwoMilestonesBuilt ==
    /\ WdBuilt
    /\ PageBuilt
    /\ Len(ItemsOf(TimelineOf(payload))) = 2
    /\ Len(ItemsOf(page_timeline)) = 1
    /\ ItemDuration(ItemsOf(page_timeline)[1]) > 0
    /\ ItemEnd(ItemsOf(TimelineOf(payload))[1]) # ItemEnd(ItemsOf(TimelineOf(payload))[2])

\* the arguments and the result of the call of _add_business_days
BDStart == bd_args[1]

BDCount == bd_args[2][2]

BDHolidays == bd_args[3]

BDReturned == pc = "bd" /\ bd_result # Unset

\* Monday to Friday and not a holiday
IsWorkingDate(o, holidays) == (o + 6) % 7 < 5 /\ o \notin holidays

\* C7: for every date d, every n >= 0 and every finite holiday set H,
\* _add_business_days(d, n, H) returns a date e (the loop terminates) with
\* exactly n Monday-to-Friday non-holiday dates in (d, e]; for n >= 1 e is
\* itself such a date, and for n = 0 it is d: weekends and holidays use up no
\* part of n.
C7_BusinessDays ==
    BDReturned =>
      /\ IsDate(bd_result)
      /\ LET e == bd_result[2]
         IN /\ e >= BDStart
            /\ Cardinality({x \in (BDStart + 1)..e : IsWorkingDate(x, BDHolidays)})
                 = BDCount
            /\ BDCount >= 1 => IsWorkingDate(e, BDHolidays)
            /\ BDCount = 0 => e = BDStart

\* a call whose window (d, e] holds a weekend day and a weekday holiday
C7_WeekendAndHolidaySkipped ==
    /\ BDReturned
    /\ IsDate(bd_result)
    /\ BDCount >= 2
    /\ \E x \in (BDStart + 1)..bd_result[2] : (x + 6) % 7 >= 5
    /\ \E x \in (BDStart + 1)..bd_result[2] : (x + 6) % 7 < 5 /\ x \in BDHolidays

-----------------------------------------------------------------------------
(* Properties of build and restore, checked under Spec *)

\* build_wizard_payload(session_state) has returned a document
Built == pc \in {"built", "restored", "rebuilt"} /\ ~IsRaised(payload)

\* restore_session_state_from_data(payload) has returned its updates
Restored ==
    /\ pc \in {"restored", "rebuilt", "restored_upload", "rebuilt_upload"}
    /\ ~IsRaised(updates)

\* the document built from what was restored from a built document
Rebuilt == pc = "rebuilt" /\ ~IsRaised(payload2)

InitiativeOf(doc) == Get(doc, K("initiative"), EmptyDict)

\* doc[section]["selections"][list]
SelectionsOf(doc, section, list) ==
    Get(Or(Get(Or(Get(doc, K(section), EmptyDict), EmptyDict), K("selections"), EmptyDict),
           EmptyDict),
        K(list), Absent)

\* some key of the snapshot starts with the prefix
AnyKey(ss, prefix) == \E i \in 1..Len(ss[2]) : StartsWith(ss[2][i][1], prefix)

\* the initiative's scalar fields, each with the snapshot key it is built from
InitiativeScalars ==
    { <<K("title"), <<"_wizard_", "automation_title">> >>,
      <<K("category"), <<"_wizard_", "category">> >>,
      <<K("category_other"), <<"_wizard_", "category_other">> >>,
      <<K("deployment_strategy"), <<"_wizard_", "deployment_strategy">> >>,
      <<K("deployment_strategy_other"), <<"_wizard_", "deployment_strategy_other">> >> }

\* C1: for every snapshot S, build(restore(build(S))) equals build(S) on every
\* field whose source field is present in S: the initiative's scalars, the
\* checkbox selection lists, the executor methods, the dependencies and the
\* timeline milestones.
C1_RoundTrip ==
    Rebuilt =>
      /\ \A f \in InitiativeScalars :
           HasKey(session_state, f[2]) =>
             Get(InitiativeOf(payload2), f[1], Absent) = Get(InitiativeOf(payload), f[1], Absent)
      /\ AnyKey(session_state, <<"pres_", "user_">>) =>
           SelectionsOf(payload2, "presentation", "users")
             = SelectionsOf(payload, "presentation", "users")
      /\ AnyKey(session_state, <<"exec_">>) =>
           SelectionsOf(payload2, "executor", "methods")
             = SelectionsOf(payload, "executor", "methods")
      /\ AnyKey(session_state, <<"dep_">>) =>
           Get(payload2, K("dependencies"), Absent) = Get(payload, K("dependencies"), Absent)
      /\ HasKey(session_state, K("timeline_milestones")) =>
           ItemsOf(TimelineOf(payload2)) = ItemsOf(TimelineOf(payload))

\* a snapshot that ticks the second executor method only has gone round
C1_ExecutorRoundTripped ==
    /\ Rebuilt
    /\ Get(session_state, <<"exec_", "1">>, Absent) = Bool(TRUE)
    /\ ~HasKey(session_state, <<"exec_", "0">>)

\* C2: build_wizard_payload stores the resolved free text in place of the
\* "Other" marker: with _wizard_deployment_strategy = "Other" and
\* _wizard_deployment_strategy_other = X, initiative.deployment_strategy is X;
\* likewise _wizard_category, _wizard_category_other and initiative.category.
C2_OtherResolved ==
    Built =>
      /\ Get(session_state, <<"_wizard_", "deployment_strategy">>, Absent) = Lit("Other") =>
           Get(InitiativeOf(payload), K("deployment_strategy"), Absent)
             = Get(session_state, <<"_wizard_", "deployment_strategy_other">>, Absent)
      /\ Get(session_state, <<"_wizard_", "category">>, Absent) = Lit("Other") =>
           Get(InitiativeOf(payload), K("category"), Absent)
             = Get(session_state, <<"_wizard_", "category_other">>, Absent)

\* a snapshot with "Other" and a free text for both fields has been built
C2_OtherBuilt ==
    /\ Built
    /\ Get(session_state, <<"_wizard_", "deployment_strategy">>, Absent) = Lit("Other")
    /\ Get(session_state, <<"_wizard_", "deployment_strategy_other">>, Absent)
         = Lit("My own Strategy")
    /\ Get(session_state, <<"_wizard_", "category">>, Absent) = Lit("Other")
    /\ Get(session_state, <<"_wizard_", "category_other">>, Absent) = Lit("My Category")

\* the choice key is set to choice and the override key to override
RestoredAs(field, choice, override) ==
    /\ Get(updates, <<"_wizard_", field>>, Absent) = choice
    /\ Get(updates, <<"_wizard_", field \o "_other">>, Absent) = override

\* a stored value that is a non-empty string
NonEmptyText(v) == IsStr(v) /\ v # EmptyStr

\* C3, as the code has it: restore_session_state_from_data classifies every
\* non-empty stored value v of initiative.deployment_strategy other than the
\* deployment-strategy placeholder, and every non-empty stored value v of
\* initiative.category, against the field's catalog: a catalog key restores
\* to (v, ""), anything else to ("Other", v); a stored deployment_strategy
\* equal to its placeholder restores to (placeholder, "").
C3_Classified ==
    Restored =>
      LET dv == Get(InitiativeOf(payload), K("deployment_strategy"), None)
          cv == Get(InitiativeOf(payload), K("category"), None)
      IN /\ NonEmptyText(dv) =>
              IF InOptions(dv, deploy_options)
              THEN RestoredAs("deployment_strategy", dv, EmptyStr)
              ELSE IF dv = DeployPlaceholder
              THEN RestoredAs("deployment_strategy", DeployPlaceholder, EmptyStr)
              ELSE RestoredAs("deployment_strategy", Lit("Other"), dv)
         /\ NonEmptyText(cv) =>
              IF InOptions(cv, category_options)
              THEN RestoredAs("category", cv, EmptyStr)
              ELSE RestoredAs("category", Lit("Other"), cv)

\* C3 as stated: every non-empty stored value outside the catalog restores to
\* ("Other", v), the placeholder included.
C3_ClassifiedAll ==
    Restored =>
      LET dv == Get(InitiativeOf(payload), K("deployment_strategy"), None)
          cv == Get(InitiativeOf(payload), K("category"), None)
      IN /\ NonEmptyText(dv) =>
              IF InOptions(dv, deploy_options)
              THEN RestoredAs("deployment_strategy", dv, EmptyStr)
              ELSE RestoredAs("deployment_strategy", Lit("Other"), dv)
         /\ NonEmptyText(cv) =>
              IF InOptions(cv, category_options)
              THEN RestoredAs("category", cv, EmptyStr)
              ELSE RestoredAs("category", Lit("Other"), cv)

\* an uploaded document with the deployment-strategy placeholder and a
\* category outside the catalog has been restored
C3_PlaceholderAndCustomRestored ==
    /\ pc = "restored_upload"
    /\ ~IsRaised(updates)
    /\ Get(InitiativeOf(payload), K("deployment_strategy"), None) = DeployPlaceholder
    /\ Get(InitiativeOf(payload), K("category"), None) = Lit("My Category")
    /\ RestoredAs("category", Lit("Other"), Lit("My Category"))

\* the placeholder of each single-choice field
Placeholders == {CategoryPlaceholder, DeployPlaceholder, SelectOne}

\* the document fields the single-choice fields are stored in
SingleChoiceFields(doc) ==
    { Get(InitiativeOf(doc), K("category"), Absent),
      Get(InitiativeOf(doc), K("deployment_strategy"), Absent),
      Get(Get(doc, K("my_role"), EmptyDict), K("who"), Absent),
      SelectionsOf(doc, "orchestration", "choice") }

\* C4: the document build_wizard_payload produces holds no sentinel
\* placeholder as a stored value: a single-choice field (category, deployment
\* strategy, my_role who, orchestration choice) that equals its placeholder
\* is stored as the empty string.
C4_NoSentinelStored ==
    Built =>
      /\ SingleChoiceFields(payload) \cap Placeholders = {}
      /\ Get(session_state, <<"_wizard_", "category">>, Absent) = CategoryPlaceholder =>
           Get(InitiativeOf(payload), K("category"), Absent) = EmptyStr
      /\ Get(session_state, <<"_wizard_", "deployment_strategy">>, Absent) = DeployPlaceholder =>
           Get(InitiativeOf(payload), K("deployment_strategy"), Absent) = EmptyStr
      /\ Get(session_state, <<"my_role_", "who">>, Absent) = SelectOne =>
           Get(Get(payload, K("my_role"), EmptyDict), K("who"), Absent) = EmptyStr
      /\ Get(session_state, <<"orch_", "choice">>, Absent) = SelectOne =>
           SelectionsOf(payload, "orchestration", "choice") = EmptyStr

\* a snapshot whose single-choice fields all hold their placeholder is built
C4_PlaceholdersBuilt ==
    /\ Built
    /\ Get(session_state, <<"_wizard_", "category">>, Absent) = CategoryPlaceholder
    /\ Get(session_state, <<"_wizard_", "deployment_strategy">>, Absent) = DeployPlaceholder
    /\ Get(session_state, <<"my_role_", "who">>, Absent) = SelectOne
    /\ Get(session_state, <<"orch_", "choice">>, Absent) = SelectOne

\* a stored value that is missing or null
Missing(doc, key) == Get(doc, key, None) = None

\* C5, as the code has it: restore_session_state_from_data applied to a
\* document whose initiative.deployment_strategy is the empty string yields
\* the deployment-strategy placeholder as the choice and an empty override;
\* an empty initiative.category yields "Other" as the choice and an empty
\* override; a missing or null category or deployment_strategy sets neither
\* the choice key nor the override key.
C5_EmptyRestores ==
    Restored =>
      LET ini == InitiativeOf(payload)
      IN /\ Get(ini, K("deployment_strategy"), None) = EmptyStr =>
              RestoredAs("deployment_strategy", DeployPlaceholder, EmptyStr)
         /\ Get(ini, K("category"), None) = EmptyStr =>
              RestoredAs("category", Lit("Other"), EmptyStr)
         /\ Missing(ini, K("deployment_strategy")) =>
              RestoredAs("deployment_strategy", Absent, Absent)
         /\ Missing(ini, K("category")) => RestoredAs("category", Absent, Absent)

\* C5 as stated: an empty or missing category or deployment_strategy restores
\* to the field's placeholder with an empty override.
C5_EmptyRestoresPlaceholder ==
    Restored =>
      LET ini == InitiativeOf(payload)
      IN /\ Get(ini, K("category"), None) \in {None, EmptyStr} =>
              RestoredAs("category", CategoryPlaceholder, EmptyStr)
         /\ Get(ini, K("deployment_strategy"), None) \in {None, EmptyStr} =>
              RestoredAs("deployment_strategy", DeployPlaceholder, EmptyStr)

\* an uploaded document with an empty category and no deployment strategy
\* has been restored
C5_EmptyCategoryRestored ==
    /\ pc = "restored_upload"
    /\ ~IsRaised(updates)
    /\ HasKey(InitiativeOf(payload), K("category"))
    /\ Get(InitiativeOf(payload), K("category"), None) = EmptyStr
    /\ ~HasKey(InitiativeOf(payload), K("deployment_strategy"))

-----------------------------------------------------------------------------
(* SpecUpload: the restorer on uploaded documents, then the builder *)

\* the checkbox groups of a document: section and list under "selections"
CheckboxGroups ==
    { <<"presentation", "users">>, <<"presentation", "interactions">>,
      <<"presentation", "tools">>, <<"presentation", "auth">>,
      <<"intent", "development">>, <<"intent", "provided">>,
      <<"observability", "methods">>, <<"observability", "tools">>,
      <<"collector", "methods">>, <<"collector", "auth">>,
      <<"collector", "handling">>, <<"collector", "normalization">>,
      <<"collector", "tools">>, <<"executor", "methods">> }

\* options of an uploaded list: one the page offers for "interactions" and
\* two that no option list of the page holds
UploadOptions == {Lit("CLI"), Lit("Chatbot"), Lit("Voice")}

SelectionLists == UNION {[1..n -> UploadOptions] : n \in 1..MaxSelections}

\* documents that hold one selection list
SelectionDocuments ==
    {MkDict(<< <<K(g[1]),
                 MkDict(<< <<K("selections"),
                             MkDict(<< <<K(g[2]), List(l)>> >>)>> >>)>> >>) :
        g \in CheckboxGroups, l \in SelectionLists}

\* the page's upload handler, "Presentation": the options the page offers
known_interact == {Lit("CLI"), Lit("Web GUI"), Lit("Other GUI"), Lit("API")}

RECURSIVE page_upload_interactions(_, _)
\* for it in pres_sel.get("interactions", []) or []: a known option sets its
\* checkbox key, any other one sets the custom slot
page_upload_interactions(ps, items) ==
    IF items = <<>> THEN ps
    ELSE LET it == Head(items)
             ps2 == IF it \in known_interact
                    THEN Put(ps, <<"pres_", "interact_">> \o it[2], Bool(TRUE))
                    ELSE Put(Put(ps, <<"pres_", "interact_", "custom_enable">>, Bool(TRUE)),
                             <<"pres_", "interact_", "custom">>, it)
         IN page_upload_interactions(ps2, Tail(items))

\* the page's checkboxes for "How will users interact with the solution?"
interact_opts ==
    <<Lit("CLI"), Lit("Purpose-built Web GUI"), Lit("Other GUI"), Lit("API"),
      Lit("Commercial Product/GUI"), Lit("Open Source Product/GUI")>>

\* selected_interactions of the page's presentation section, the widgets
\* reading their values from ps
page_selected_interactions(ps) ==
    LET checked(opt) == Truthy(Get(ps, <<"pres_", "interact_">> \o opt[2], Bool(FALSE)))
        custom_interact_enabled ==
            Truthy(Get(ps, <<"pres_", "interact_", "custom_enable">>, Bool(FALSE)))
        custom_interact ==
            IF custom_interact_enabled
            THEN Get(ps, <<"pres_", "interact_", "custom">>, EmptyStr)
            ELSE EmptyStr
        selected_interactions == SelectSeq(interact_opts, checked)
    IN IF custom_interact_enabled /\ Strip(custom_interact[2]) # <<>>
       THEN Append(selected_interactions, Str(Strip(custom_interact[2])))
       ELSE selected_interactions

\* the top-level section keys of a document
SectionKeys ==
    <<K("initiative"), K("my_role"), K("stakeholders"), K("presentation"),
      K("intent"), K("observability"), K("orchestration"), K("collector"),
      K("executor"), K("dependencies"), K("timeline")>>

RECURSIVE SectionEntries(_, _)
\* the entries of a document that gives section i the value f[i], from
\* section i on
SectionEntries(f, i) ==
    IF i > Len(SectionKeys) THEN <<>>
    ELSE Entry(SectionKeys[i], f[i]) \o SectionEntries(f, i + 1)

\* documents in which every section is missing or None
SectionDocuments ==
    {Dict(SectionEntries(f, 1)) : f \in [1..Len(SectionKeys) -> {Absent, None}]}

\* stakeholder category names: one of the current catalog, a legacy one and
\* one no catalog holds
StakeholderCategories == <<K("Network Engineering"), K("Legacy Team"), K("Zzz")>>

RECURSIVE ChoiceEntries(_, _)
\* the entries of a choices mapping that gives category i the roles f[i]
ChoiceEntries(f, i) ==
    IF i > Len(StakeholderCategories) THEN <<>>
    ELSE Entry(StakeholderCategories[i], f[i]) \o ChoiceEntries(f, i + 1)

\* what a document holds as stakeholders.choices: nothing, None, values that
\* are no mapping, and mappings from category names to role lists
StakeholderChoices ==
    {Absent, None, Lit("Architects"), List(<<Lit("Architects")>>)}
    \cup {Dict(ChoiceEntries(f, 1)) :
            f \in [1..Len(StakeholderCategories) ->
                     {Absent, EmptyList, List(<<Lit("Architects")>>)}]}

\* documents that vary the stakeholders section
StakeholderDocuments ==
    {Dict(Entry(K("stakeholders"), st)) :
        st \in {Absent, None, Lit("Architects"), EmptyList}
              \cup {Dict(Entry(K("choices"), ch) \o Entry(K("other"), other)) :
                       ch \in StakeholderChoices, other \in {Absent, None, Lit("Vendors")}}}

\* what a document holds as the details of a dependency: nothing, empty,
\* plain and padded text
DependencyDetails ==
    {Absent, EmptyStr, Lit("GitHub"), Str(<<Space, "GitHub", Space>>)}

\* the entry of a dependencies list for a name, none when details is Unset
DependencyEntry(name, details) ==
    IF details = Unset THEN <<>>
    ELSE <<Dict(Entry(K("name"), Lit(name)) \o Entry(K("details"), details))>>

\* documents that vary the dependencies list: a dependency the page knows and
\* one it does not, each left out or listed with some details
DependencyDocuments ==
    {MkDict(<< <<K("dependencies"),
                 List(DependencyEntry("Revision Control system", d1)
                      \o DependencyEntry("Unknown System", d2))>> >>) :
        d1 \in DependencyDetails \cup {Unset}, d2 \in DependencyDetails \cup {Unset}}

\* the items of an uploaded timeline, as a build writes them: a plain or a
\* padded name, a duration, notes and the computed dates
UploadItems ==
    {MkDict(<< <<K("name"), name>>,
               <<K("duration_bd"), IntV(dur)>>,
               <<K("start"), Str(IsoText(2024, 1, 1))>>,
               <<K("end"), Str(IsoText(2024, 1, 8))>>,
               <<K("notes"), notes>> >>) :
        name \in {Lit("Planning"), Str(<<Space, "Design", Space>>)},
        dur \in {0, 5}, notes \in {EmptyStr, Lit("with vendor")}}

\* documents that vary the items of the timeline section
TimelineItemDocuments ==
    {MkDict(<< <<K("timeline"), MkDict(<< <<K("items"), List(items)>> >>)>> >>) :
        items \in UNION {[1..n -> UploadItems] : n \in 1..MaxMilestones}}

\* the page's upload handler, "Timeline milestones from items": one row
page_upload_milestone(it) ==
    LET item == Or(it, EmptyDict)
        name == PyStr(Or(Get(item, K("name"), None), EmptyStr))
        dur == int(Or(Get(item, K("duration_bd"), None), IntV(0)))
        notes == PyStr(Or(Get(item, K("notes"), None), EmptyStr))
    IN IF IsRaised(dur)
       THEN MkDict(<< <<K("name"), name>>, <<K("duration"), IntV(0)>>,
                      <<K("notes"), notes>> >>)
       ELSE MkDict(<< <<K("name"), Str(Strip(name[2]))>>, <<K("duration"), dur>>,
                      <<K("notes"), notes>> >>)

\* st.session_state["timeline_milestones"] after the page's upload handler
page_upload_milestones(items) ==
    List([i \in 1..Len(items) |-> page_upload_milestone(items[i])])

UploadInit ==
    /\ session_state = Unset
    /\ payload \in SelectionDocuments \cup SectionDocuments \cup StakeholderDocuments
                   \cup DependencyDocuments \cup TimelineItemDocuments
    /\ pc = "uploaded"
    /\ updates = Unset
    /\ payload2 = Unset
    /\ page_state = Unset
    /\ holiday_set = {}
    /\ page_timeline = Unset
    /\ bd_args = Unset
    /\ bd_result = Unset
    /\ sentence_args = Unset
    /\ sentence = Unset
    /\ any_content = Unset

UploadNext == Restore \/ Rebuild

SpecUpload == UploadInit /\ [][UploadNext]_vars

\* the builder has run on what the restorer returned for an uploaded document
RebuiltUpload == pc = "rebuilt_upload" /\ ~IsRaised(payload2)

\* every element of the list value a is an element of the list value b
ListedAgain(a, b) ==
    IsList(a) => /\ IsList(b)
                 /\ \A i \in 1..Len(a[2]) : \E j \in 1..Len(b[2]) : b[2][j] = a[2][i]

\* C11: every option of a checkbox-group selection list of the document is
\* kept by the restorer, as a true checkbox key or in the custom slot, so that
\* the next build lists it again: the builder run on what
\* restore_session_state_from_data returned lists every option of every
\* selection list of the document, and the page's selected interactions after
\* its upload handler hold every option of the document's interactions, an
\* option the page does not offer and several of them in one list included.
C11_OptionsKept ==
    /\ RebuiltUpload =>
         \A g \in CheckboxGroups :
             ListedAgain(SelectionsOf(payload, g[1], g[2]),
                         SelectionsOf(payload2, g[1], g[2]))
    /\ pc = "uploaded" =>
         LET its == SelectionsOf(payload, "presentation", "interactions")
         IN IsList(its) =>
              ListedAgain(its, List(page_selected_interactions(
                                      page_upload_interactions(EmptyDict, its[2]))))

\* two options the page does not offer were restored from the users list and
\* the next build listed both
C11_UnknownOptionsRestored ==
    /\ RebuiltUpload
    /\ SelectionsOf(payload, "presentation", "users") = List(<<Lit("Chatbot"), Lit("Voice")>>)
    /\ ListedAgain(SelectionsOf(payload, "presentation", "users"),
                   SelectionsOf(payload2, "presentation", "users"))

-----------------------------------------------------------------------------
(* SpecFields: the builder on snapshots that vary single fields *)

\* the presentation groups with a custom slot: list under "selections",
\* checkbox prefix, enable key, text key
CustomGroups ==
    { <<"users", <<"pres_", "user_">>,
        <<"pres_", "user_", "custom_enable">>, <<"pres_", "user_", "custom">> >>,
      <<"interactions", <<"pres_", "interact_">>,
        <<"pres_", "interact_", "custom_enable">>, <<"pres_", "interact_", "custom">> >>,
      <<"tools", <<"pres_", "tool_">>,
        <<"pres_", "tool_", "custom_enable">>, <<"pres_", "tool_", "custom">> >>,
      <<"auth", <<"pres_", "auth_">>,
        <<"pres_", "auth_", "other_enable">>, <<"pres_", "auth_", "other_text">> >> }

\* free text typed into a custom slot: none, empty, plain, padded, blank
CustomTexts ==
    {Absent, EmptyStr, Lit("Auditors"), Str(<<Space, "Auditors", Space>>), Str(<<Space>>)}

\* snapshots that vary one presentation group: one option, the enable
\* checkbox and the free text
CustomSnapshots ==
    {Dict(Entry(g[2] \o <<"CLI">>, a) \o Entry(g[3], en) \o Entry(g[4], txt)) :
        g \in CustomGroups, a \in {Absent, Bool(TRUE)}, en \in Tick, txt \in CustomTexts}

\* snapshots that vary the dependency checkboxes and their details
DependencySnapshots ==
    {Dict(Entry(<<"dep_", "network_infra">>, d1)
          \o Entry(<<"dep_", "revision_control">>, d2)
          \o Entry(<<"dep_", "revision_control", "_details">>, t2)
          \o Entry(<<"dep_", "monitoring_system">>, d3)
          \o Entry(<<"dep_", "monitoring_system", "_details">>, t3)) :
        d1 \in Tick, d2 \in Tick, d3 \in Tick,
        t2 \in {Absent, Lit("GitHub")}, t3 \in {Absent, EmptyStr, Lit("Prometheus")}}

\* the fields of a filled-in snapshot, one or two per section
SnapshotFields ==
    << << <<"_wizard_", "automation_title">>, Lit("Test Project") >>,
       << <<"_wizard_", "category">>, Lit("Device Onboarding") >>,
       << <<"my_role_", "who">>, Lit("I'm a network engineer.") >>,
       << <<"stakeholders_", "choices">>,
          MkDict(<< <<K("Network Engineering"), List(<<Lit("Architects")>>)>> >>) >>,
       << <<"stakeholders_", "other_text">>, Lit("Vendors") >>,
       << <<"orch_", "choice">>, Lit("No") >>,
       << <<"exec_", "0">>, Bool(TRUE) >>,
       << K("timeline_start_date"), Date(FirstStart) >>,
       << K("timeline_milestones"),
          List(<<MkDict(<< <<K("name"), Lit("Planning")>>,
                           <<K("duration_bd"), IntV(5)>> >>)>>) >> >>

\* snapshots in which any of these fields is missing, the empty one included
PartialSnapshots ==
    {Dict(SelectSeq(SnapshotFields, LAMBDA field : field[1] \in present)) :
        present \in SUBSET {SnapshotFields[i][1] : i \in 1..Len(SnapshotFields)}}

\* the checkbox groups whose enable toggle shares the prefix of the options:
\* section, list under "selections", checkbox prefix, enable key, text key
LabelGroups ==
    { <<"presentation", "users", <<"pres_", "user_">>,
        <<"pres_", "user_", "custom_enable">>, <<"pres_", "user_", "custom">> >>,
      <<"presentation", "auth", <<"pres_", "auth_">>,
        <<"pres_", "auth_", "other_enable">>, <<"pres_", "auth_", "other_text">> >>,
      <<"observability", "tools", <<"obs_", "tool_">>,
        <<"obs_", "tool_", "other_enable">>, <<"obs_", "tool_", "other_text">> >>,
      <<"executor", "methods", <<"exec_">>,
        <<"exec_", "custom_enable">>, <<"exec_", "custom_text">> >> }

\* a label that contains the text of the group's prefix
PrefixedLabel(prefix) == <<"Ops ">> \o prefix \o <<"team">>

\* snapshots that vary one checkbox group: a plain option, an option whose
\* label contains the prefix, and the enable toggle without any text
LabelSnapshots ==
    {Dict(Entry(g[3] \o <<"CLI">>, a)
          \o Entry(g[3] \o PrefixedLabel(g[3]), b)
          \o Entry(g[4], en)) :
        g \in LabelGroups, a \in {Absent, Bool(TRUE)}, b \in {Absent, Bool(TRUE)},
        en \in Tick}

FieldsInit ==
    /\ session_state \in CustomSnapshots \cup DependencySnapshots \cup PartialSnapshots
                         \cup LabelSnapshots
    /\ payload = Unset
    /\ pc = "start"
    /\ updates = Unset
    /\ payload2 = Unset
    /\ page_state = Unset
    /\ holiday_set = {}
    /\ page_timeline = Unset
    /\ bd_args = Unset
    /\ bd_result = Unset
    /\ sentence_args = Unset
    /\ sentence = Unset
    /\ any_content = Unset

FieldsNext == Build

SpecFields == FieldsInit /\ [][FieldsNext]_vars

\* what a group's list holds when the free text is appended trimmed under a
\* true enable checkbox with text left after trimming, and nothing otherwise
TrimmedAppend(selected, enabled, text) ==
    IF Truthy(enabled) /\ IsStr(text) /\ Strip(text[2]) # <<>>
    THEN Append(selected, Str(Strip(text[2])))
    ELSE selected

\* C12: when a group's custom-enable checkbox is true the builder appends the
\* trimmed free text to that group's list, and when the checkbox is false or
\* the trimmed text is empty it appends nothing: the list of each presentation
\* group is its checked values followed by the trimmed text or by nothing.
C12_CustomTrimmed ==
    Built =>
      \A g \in CustomGroups :
          SelectionsOf(payload, "presentation", g[1]) =
            List(TrimmedAppend(collect_checkbox_values(session_state, g[2]),
                               Get(session_state, g[3], Bool(FALSE)),
                               Get(session_state, g[4], EmptyStr)))

\* a document was built from a snapshot with the custom users enabled and a
\* padded free text
C12_PaddedTextBuilt ==
    /\ Built
    /\ Get(session_state, <<"pres_", "user_", "custom_enable">>, None) = Bool(TRUE)
    /\ Get(session_state, <<"pres_", "user_", "custom">>, None)
         = Str(<<Space, "Auditors", Space>>)

-----------------------------------------------------------------------------
(* SpecSentence: _build_sentence_from_list on drawn arguments *)

ItemNames == {Lit("A"), Lit("B"), Lit("C")}

ItemLists == UNION {[1..n -> ItemNames] : n \in 0..MaxItems}

SentencePrefixes == {<<>>, <<"Using ">>}

SentenceSuffixes == {<<>>, <<".">>}

SentenceInit ==
    \E items \in ItemLists, prefix \in SentencePrefixes, suffix \in SentenceSuffixes :
        /\ sentence_args = <<items, prefix, suffix>>
        /\ sentence = Unset
        /\ any_content = Unset
        /\ session_state = Unset
        /\ payload = Unset
        /\ updates = Unset
        /\ payload2 = Unset
        /\ pc = "sentence"
        /\ page_state = Unset
        /\ holiday_set = {}
        /\ page_timeline = Unset
        /\ bd_args = Unset
        /\ bd_result = Unset

BuildSentence ==
    /\ pc = "sentence"
    /\ sentence = Unset
    /\ sentence' = build_sentence_from_list(sentence_args[1], sentence_args[2],
                                            sentence_args[3])
    /\ UNCHANGED <<session_state, payload, updates, payload2, pc, page_state,
                   holiday_set, page_timeline, bd_args, bd_result, sentence_args,
                   any_content>>

SentenceNext == BuildSentence

SpecSentence == SentenceInit /\ [][SentenceNext]_vars

\* the text between item i and item i + 1 of n items
Separator(i, n) ==
    IF n = 2 THEN " and " ELSE IF i = n - 1 THEN ", and " ELSE ", "

\* the items of a list with the separators between them, piece by piece
Joined(items) ==
    [k \in 1..(2 * Len(items) - 1) |->
        IF k % 2 = 1 THEN items[(k + 1) \div 2][2][1]
        ELSE Separator(k \div 2, Len(items))]

\* C13: _build_sentence_from_list returns the empty string for no item, with
\* no prefix and no suffix; for one item the item; for two items "a and b"
\* with no comma; for three or more items the items separated by ", " with
\* ", and " before the last one; and the prefix and the suffix around every
\* result that is not empty.
C13_JoinRule ==
    sentence # Unset =>
      LET items == sentence_args[1]
      IN IF items = <<>>
         THEN sentence = EmptyStr
         ELSE sentence = Str(sentence_args[2] \o Joined(items) \o sentence_args[3])

\* three items were joined between a prefix and a suffix
C13_ThreeItemsJoined ==
    /\ sentence_args = << <<Lit("A"), Lit("B"), Lit("C")>>, <<"Using ">>, <<".">> >>
    /\ sentence = Str(<<"Using ", "A", ", ", "B", ", and ", "C", ".">>)

\* the positions of the snapshot's dependency checkboxes that are set
SetDependencies(ss) ==
    {i \in 1..Len(ss[2]) :
        /\ ss[2][i][1][1] = "dep_"
        /\ ss[2][i][1][Len(ss[2][i][1])] # "_details"
        /\ ss[2][i][2] = Bool(TRUE)}

\* C14: for every snapshot in which no dependency checkbox is set the
\* builder's dependencies list is exactly the two entries Network
\* Infrastructure with no details and Revision Control system with the details
\* GitHub; when at least one dependency checkbox is set the list has one entry
\* per set checkbox, in the order of the checkboxes, each with the details
\* typed for it, and no default entry is added.
C14_Dependencies ==
    Built =>
      LET set == SetDependencies(session_state)
          deps == Get(payload, K("dependencies"), None)[2]
          name(i) == Tail(session_state[2][i][1])
      IN IF set = {}
         THEN deps = << Dict(<< <<K("name"), Lit("Network Infrastructure")>>,
                                <<K("details"), EmptyStr>> >>),
                        Dict(<< <<K("name"), Lit("Revision Control system")>>,
                                <<K("details"), Lit("GitHub")>> >>) >>
         ELSE /\ Len(deps) = Cardinality(set)
              /\ \A i \in set :
                   LET n == Cardinality({j \in set : j <= i})
                   IN /\ Get(deps[n], K("name"), None) = Str(name(i))
                      /\ Get(deps[n], K("details"), None) =
                           Get(session_state, <<"dep_">> \o name(i) \o <<"_details">>,
                               EmptyStr)

\* a document was built from a snapshot with two dependency checkboxes set,
\* one of them with details
C14_TwoDependenciesBuilt ==
    /\ Built
    /\ Cardinality(SetDependencies(session_state)) = 2
    /\ Get(session_state, <<"dep_", "monitoring_system", "_details">>, None)
         = Lit("Prometheus")
    /\ Get(session_state, <<"dep_", "monitoring_system">>, None) = Bool(TRUE)
    /\ Len(Get(payload, K("dependencies"), None)[2]) = 2

\* restore_session_state_from_data was called on an uploaded document
RestoreCalled == pc \in {"restored_upload", "rebuilt_upload"}

\* what the restorer returns when every section takes its empty default
EmptyDefaults ==
    Dict(<< << <<"stakeholders_", "choices">>, EmptyDict >>,
            << <<"stakeholders_", "other_text">>, EmptyStr >> >>)

\* every entry of the document is a section key with the value None
SectionsMissingOrNone(doc) ==
    \A i \in 1..Len(doc[2]) :
        /\ \E k \in 1..Len(SectionKeys) : doc[2][i][1] = SectionKeys[k]
        /\ doc[2][i][2] = None

\* C15: restore_session_state_from_data raises no exception for a document in
\* which any subset of the eleven top-level section keys is missing or None;
\* each such section restores to its empty default, for stakeholders
\* stakeholders_choices = {} and stakeholders_other_text = '', so the call
\* returns exactly these two keys.
C15_SectionsTolerated ==
    (RestoreCalled /\ SectionsMissingOrNone(payload)) =>
        /\ ~IsRaised(updates)
        /\ updates = EmptyDefaults

\* a document with the initiative missing and every other section None was
\* restored to the empty defaults
C15_NoneSectionsRestored ==
    /\ RestoreCalled
    /\ Len(payload[2]) = Len(SectionKeys) - 1
    /\ SectionsMissingOrNone(payload)
    /\ updates = EmptyDefaults

-----------------------------------------------------------------------------
(* SpecMalformed: the builder and the restorer on malformed timeline values *)

\* strings that are no valid YYYY-MM-DD date
InvalidDateTexts ==
    {Lit("not-a-date"), EmptyStr, Str(<<"2024", "-", "13", "-", "01">>),
     Str(<<"2024", "-", "02", "-", "30">>)}

\* values that int() cannot coerce
NonNumeric == {Lit("abc"), None}

\* staff counts and durations drawn: missing, a number, a numeric string and
\* the values int() cannot coerce
NumberValues == {Absent, IntV(2), Lit("3")} \cup NonNumeric

\* snapshots that vary the timeline's start date, staff counts and the
\* duration of one milestone
MalformedSnapshots ==
    {Dict(Entry(K("timeline_start_date"), sd)
          \o Entry(K("timeline_staff_count"), c)
          \o Entry(K("timeline_external_staff_count"), e)
          \o Entry(K("timeline_milestones"),
                   List(<<Dict(Entry(K("name"), Lit("Planning"))
                               \o Entry(K("duration_bd"), d))>>))) :
        sd \in {Absent, Date(FirstStart), Str(IsoText(2024, 1, 8))} \cup InvalidDateTexts,
        c \in NumberValues, e \in {Absent, Lit("abc")}, d \in NumberValues}

\* documents that vary the same values of the timeline section
MalformedDocuments ==
    {MkDict(<< <<K("timeline"),
                 Dict(Entry(K("start_date"), sd)
                      \o Entry(K("staff_count"), c)
                      \o Entry(K("items"),
                               List(<<Dict(Entry(K("name"), Lit("Planning"))
                                           \o Entry(K("duration_bd"), d))>>)))>> >>) :
        sd \in {Absent, Str(IsoText(2024, 1, 8)), Lit("not-a-date")},
        c \in NumberValues, d \in NumberValues}

MalformedInit ==
    /\ \/ /\ session_state \in MalformedSnapshots
          /\ payload = Unset
          /\ pc = "start"
       \/ /\ session_state = Unset
          /\ payload \in MalformedDocuments
          /\ pc = "uploaded"
    /\ updates = Unset
    /\ payload2 = Unset
    /\ page_state = Unset
    /\ holiday_set = {}
    /\ page_timeline = Unset
    /\ bd_args = Unset
    /\ bd_result = Unset
    /\ sentence_args = Unset
    /\ sentence = Unset
    /\ any_content = Unset

SpecMalformed == MalformedInit /\ [][Next]_vars

\* build_wizard_payload(session_state) was called
BuildCalled == pc \in {"built", "restored", "rebuilt"}

\* the duration of the snapshot's milestone, Absent when it has none
SnapshotDuration ==
    Get(Get(session_state, K("timeline_milestones"), EmptyList)[2][1],
        K("duration_bd"), Absent)

\* the snapshot's staff counts and duration are integers or missing
NumbersWellFormed ==
    \A v \in {Get(session_state, K("timeline_staff_count"), Absent),
              Get(session_state, K("timeline_external_staff_count"), Absent),
              SnapshotDuration} : v = Absent \/ IsInt(v)

\* C16: build_wizard_payload raises no exception when timeline_start_date is
\* a string that is not a valid YYYY-MM-DD date; it uses today's date as the
\* timeline start date.
C16_InvalidDateIsToday ==
    (/\ BuildCalled
     /\ Get(session_state, K("timeline_start_date"), Absent) \in InvalidDateTexts
     /\ NumbersWellFormed) =>
        /\ ~IsRaised(payload)
        /\ Get(TimelineOf(payload), K("start_date"), None) = Str(strftime(Today[2]))

\* the builder was called on a snapshot whose start date is the text
\* "not-a-date" and whose numbers are well formed
C16_InvalidDateBuilt ==
    /\ BuildCalled
    /\ Get(session_state, K("timeline_start_date"), Absent) = Lit("not-a-date")
    /\ NumbersWellFormed

\* the snapshot's start date is a date, a valid date text or missing
DateWellFormed ==
    Get(session_state, K("timeline_start_date"), Absent) \notin InvalidDateTexts

\* the duration of the document's timeline item, Absent when it has none
DocumentDuration ==
    Get(ItemsOf(TimelineOf(payload))[1], K("duration_bd"), Absent)

\* C17: when a staff count or a milestone duration cannot be coerced to an
\* integer (a non-numeric string, or None) the builder and the restorer use 0
\* for that value and raise no exception: the built timeline holds 0 as that
\* staff count or as that item's duration, and the restored snapshot holds 0
\* (or no value, which the builder reads as 0) under the key of that value.
C17_CoercionFallsBack ==
    /\ (BuildCalled /\ DateWellFormed) =>
         /\ ~IsRaised(payload)
         /\ Get(session_state, K("timeline_staff_count"), Absent) \in NonNumeric =>
              Get(TimelineOf(payload), K("staff_count"), None) = IntV(0)
         /\ Get(session_state, K("timeline_external_staff_count"), Absent) \in NonNumeric =>
              Get(TimelineOf(payload), K("external_staff_count"), None) = IntV(0)
         /\ SnapshotDuration \in NonNumeric =>
              ItemDuration(ItemsOf(TimelineOf(payload))[1]) = 0
    /\ RestoreCalled =>
         /\ ~IsRaised(updates)
         /\ Get(TimelineOf(payload), K("staff_count"), Absent) \in NonNumeric =>
              Get(updates, K("timeline_staff_count"), IntV(0)) = IntV(0)
         /\ DocumentDuration \in NonNumeric =>
              Get(Get(updates, K("timeline_milestones"), EmptyList)[2][1],
                  K("duration_bd"), None) = IntV(0)

\* the builder was called with a staff count that is no number and the
\* restorer with a duration that is no number
C17_NonNumericHandled ==
    \/ /\ BuildCalled
       /\ DateWellFormed
       /\ Get(session_state, K("timeline_staff_count"), Absent) = Lit("abc")
    \/ /\ RestoreCalled
       /\ DocumentDuration = Lit("abc")

\* the keys of a dict value, in order
Keys(d) == [i \in 1..Len(d[2]) |-> d[2][i][1]]

\* C18: for every snapshot, the empty one included, build_wizard_payload
\* returns a document that contains all eleven section keys (initiative,
\* my_role, stakeholders, presentation, intent, observability, orchestration,
\* collector, executor, dependencies, timeline) and raises no exception
\* because an optional field is missing.
C18_AllSections ==
    BuildCalled =>
        /\ ~IsRaised(payload)
        /\ IsDict(payload)
        /\ Keys(payload) = SectionKeys

\* the document of the empty snapshot was built
C18_EmptySnapshotBuilt ==
    /\ BuildCalled
    /\ session_state = EmptyDict
    /\ IsDict(payload)

ChoicesOf(doc) ==
    LET stakeholders == Get(doc, K("stakeholders"), Absent)
    IN IF IsDict(stakeholders) THEN Get(stakeholders, K("choices"), Absent) ELSE Absent

-----------------------------------------------------------------------------
(* SpecRoundTrip: build, restore and build again on the author and on the
   additional gating logic *)

\* snapshots that vary the author, the title and the gating-logic answer
RoundTripSnapshots ==
    {Dict(Entry(<<"_wizard_", "author">>, author)
          \o Entry(<<"_wizard_", "automation_title">>, title)
          \o Entry(<<"obs_", "go_no_go">>, go)
          \o Entry(<<"obs_", "add_logic_choice">>, choice)
          \o Entry(<<"obs_", "add_logic_text">>, text)) :
        author \in {Absent, EmptyStr, Lit("Ada Lovelace")},
        title \in {Absent, Lit("Test Project")},
        go \in {Absent, Lit("Pre-checks pass")},
        choice \in {Absent, SelectOne, Lit("No"), Lit("Yes")},
        text \in {Absent, EmptyStr, Lit("Check CPU")}}

\* uploaded documents that vary initiative.author
AuthorDocuments ==
    {MkDict(<< <<K("initiative"),
                 Dict(Entry(K("author"), author) \o Entry(K("title"), title))>> >>) :
        author \in {Absent, None, EmptyStr, Lit("Ada Lovelace")},
        title \in {Absent, Lit("Test Project")}}

RoundTripInit ==
    /\ \/ /\ session_state \in RoundTripSnapshots
          /\ payload = Unset
          /\ pc = "start"
       \/ /\ session_state = Unset
          /\ payload \in AuthorDocuments
          /\ pc = "uploaded"
    /\ updates = Unset
    /\ payload2 = Unset
    /\ page_state = Unset
    /\ holiday_set = {}
    /\ page_timeline = Unset
    /\ bd_args = Unset
    /\ bd_result = Unset
    /\ sentence_args = Unset
    /\ sentence = Unset
    /\ any_content = Unset

SpecRoundTrip == RoundTripInit /\ [][Next]_vars

\* restore_session_state_from_data has returned for a built or an uploaded
\* document
RestoreReturned ==
    /\ pc \in {"restored", "rebuilt", "restored_upload", "rebuilt_upload"}
    /\ IsDict(updates)

\* C21: the author field survives save and load:
\* restore_session_state_from_data sets _wizard_author to initiative.author
\* when the document has that key and emits no _wizard_author key when the
\* document has none, and for every snapshot S the document
\* build(restore(build(S))) has initiative.author equal to S['_wizard_author'].
C21_AuthorSurvives ==
    /\ RestoreReturned =>
         LET author == Get(InitiativeOf(payload), K("author"), Absent)
         IN IF author \in {Absent, None}
            THEN ~HasKey(updates, <<"_wizard_", "author">>)
            ELSE Get(updates, <<"_wizard_", "author">>, Absent) = author
    /\ (pc = "rebuilt" /\ IsDict(payload2)) =>
         Get(InitiativeOf(payload2), K("author"), Absent) =
           Get(session_state, <<"_wizard_", "author">>, EmptyStr)

\* a snapshot with an author was built, restored and built again
C21_AuthorRebuilt ==
    /\ pc = "rebuilt"
    /\ IsDict(payload2)
    /\ Get(session_state, <<"_wizard_", "author">>, Absent) = Lit("Ada Lovelace")
    /\ Get(InitiativeOf(payload), K("author"), Absent) = Lit("Ada Lovelace")

\* the dependencies list of a document, empty when it has none
DependenciesOf(doc) ==
    LET deps == Get(doc, K("dependencies"), EmptyList)
    IN IF IsList(deps) THEN deps[2] ELSE <<>>

\* C22: for each {name, details} entry of the document's dependencies list
\* the restorer sets the checkbox key of that name to true and its details
\* key to the details string trimmed of surrounding whitespace (no details
\* key counting as the empty string); an entry whose name is not a known
\* dependency raises no exception.
C22_DependenciesRestored ==
    (RestoreCalled /\ DependenciesOf(payload) # <<>>) =>
        /\ IsDict(updates)
        /\ \A i \in 1..Len(DependenciesOf(payload)) :
             LET dep == DependenciesOf(payload)[i]
                 name == Get(dep, K("name"), EmptyStr)[2]
                 details == Get(dep, K("details"), EmptyStr)
             IN /\ Get(updates, <<"dep_">> \o name, Absent) = Bool(TRUE)
                /\ Get(updates, <<"dep_">> \o name \o <<"_details">>, EmptyStr)
                     = Str(Strip(details[2]))

\* a dependencies list with an unknown name and plain details was restored
C22_UnknownDependencyRestored ==
    /\ RestoreCalled
    /\ IsDict(updates)
    /\ Len(DependenciesOf(payload)) = 2
    /\ Get(updates, <<"dep_", "Unknown System">>, Absent) = Bool(TRUE)
    /\ Get(updates, <<"dep_", "Unknown System", "_details">>, Absent) = Lit("GitHub")

\* the items of the uploaded document's timeline, empty when it has none
UploadedItems ==
    LET tl == Or(Get(payload, K("timeline"), EmptyDict), EmptyDict)
        items == Get(tl, K("items"), EmptyList)
    IN IF IsDict(tl) /\ IsList(items) THEN items[2] ELSE <<>>

\* the records with exactly the fields name, duration_bd and notes, in the
\* order and with the values of the items
MilestoneRecords(items) ==
    List([i \in 1..Len(items) |->
            Dict(<< <<K("name"), Get(items[i], K("name"), Absent)>>,
                    <<K("duration_bd"), Get(items[i], K("duration_bd"), Absent)>>,
                    <<K("notes"), Get(items[i], K("notes"), Absent)>> >>)])

\* C23: the restorer turns a non-empty timeline.items list into
\* timeline_milestones, a list of records with exactly the fields name,
\* duration_bd and notes, in the same order and with the same values as the
\* items; the items' start and end dates are not copied into the snapshot.
\* This is stated of restore_session_state_from_data and of the page's upload
\* handler.
C23_MilestonesRestored ==
    /\ (RestoreCalled /\ UploadedItems # <<>>) =>
         /\ IsDict(updates)
         /\ Get(updates, K("timeline_milestones"), Absent) = MilestoneRecords(UploadedItems)
    /\ (pc = "uploaded" /\ UploadedItems # <<>>) =>
         page_upload_milestones(UploadedItems) = MilestoneRecords(UploadedItems)

\* two uploaded items were restored as two milestone records
C23_TwoItemsRestored ==
    /\ RestoreCalled
    /\ Len(UploadedItems) = 2
    /\ UploadedItems[1] # UploadedItems[2]
    /\ IsDict(updates)
    /\ Get(updates, K("timeline_milestones"), Absent) = MilestoneRecords(UploadedItems)

-----------------------------------------------------------------------------
(* The page's session: "Reset to defaults", "Apply uploaded JSON", an edit of
   a widget, and the run of the script that follows each of them.  The session
   is followed on the sections "Presentation" (intended users),
   "Orchestration", "Collector" (devices), "Dependencies" and "Timeline"
   (staff count) and on the backing storage of the upload handler.  The
   uploaded documents hold no other section, and the keys of the other
   sections, which none of these steps reads, are left out of the session. *)

\* st.session_state.pop(k, None)
Pop(d, k) ==
    LET other(e) == e[1] # k
    IN Dict(SelectSeq(d[2], other))

\* for k in ks: st.session_state.pop(k, None)
PopAll(d, ks) ==
    LET kept(e) == \A i \in 1..Len(ks) : e[1] # ks[i]
    IN Dict(SelectSeq(d[2], kept))

\* any(k.startswith(p) for p in prefixes)
StartsWithAny(k, prefixes) ==
    \E i \in 1..Len(prefixes) : StartsWith(k, prefixes[i])

\* for k in list(st.session_state.keys()): if any(...): pop(k, None)
PopPrefixes(d, prefixes) ==
    LET kept(e) == ~ StartsWithAny(e[1], prefixes)
    IN Dict(SelectSeq(d[2], kept))

\* for k in list(st.session_state.keys()): if k.startswith((...)): = False
UncheckPrefixes(d, prefixes) ==
    Dict([i \in 1..Len(d[2]) |->
            IF StartsWithAny(d[2][i][1], prefixes)
            THEN <<d[2][i][1], Bool(FALSE)>>
            ELSE d[2][i]])

RECURSIVE PutEach(_, _, _)
\* for k in ks: st.session_state[k] = v
PutEach(d, ks, v) ==
    IF ks = <<>> THEN d ELSE PutEach(Put(d, Head(ks), v), Tail(ks), v)

\* the statements of a handler take effect one after the other: every step is
\* evaluated before the result that is built on them
InOrder(steps, result) ==
    IF \A i \in 1..Len(steps) : IsDict(steps[i]) THEN result ELSE result

\* prefixes of the keys "Reset to defaults" pops
reset_prefixes ==
    << <<"pres_">>, <<"intent_">>, <<"obs_">>, <<"orch_">>, <<"collector_">>,
       <<"collection_tool_">>, <<"collection_tools_">>, <<"exec_">>,
       <<"my_role_">>, <<"dep_">>, <<"_tl_">>, <<"_timeline_">>,
       <<"obs_", "tool_">>, <<"obs_", "state_">>, <<"collector_", "method_">>,
       <<"collector_", "auth_">>, <<"collector_", "handle_">>,
       <<"collector_", "norm_">>, <<"stakeholders_">> >>

\* prefixes of the keys "Apply uploaded JSON" pops
upload_prefixes ==
    << <<"pres_">>, <<"intent_">>, <<"obs_">>, <<"orch_">>, <<"collector_">>,
       <<"collection_tool_">>, <<"collection_tools_">>, <<"exec_">>,
       <<"my_role_">>, <<"dep_">>, <<"_tl_">>, <<"_timeline_">>,
       <<"obs_", "tool_">>, <<"obs_", "state_">>, <<"collector_", "method_">>,
       <<"collector_", "auth_">>, <<"collector_", "handle_">>,
       <<"collector_", "norm_">>, <<"_wizard_">>, <<"_widget_">>,
       <<"stakeholders_">> >>

\* prefixes of the checkbox keys both handlers force to False
checkbox_prefixes ==
    << <<"pres_", "user_">>, <<"pres_", "interact_">>, <<"pres_", "tool_">>,
       <<"pres_", "auth_">>, <<"intent_", "dev_">>, <<"intent_", "prov_">>,
       <<"obs_", "state_">>, <<"obs_", "tool_">>, <<"collector_", "method_">>,
       <<"collector_", "auth_">>, <<"collector_", "handle_">>,
       <<"collector_", "norm_">>, <<"collection_tool_">>,
       <<"collection_tools_">> >>

\* the custom enable toggles both handlers set to False, of the sections
\* followed here
enable_keys == << <<"pres_", "user_", "custom_enable">> >>

\* the keys "Reset to defaults" pops by name
reset_keys ==
    << K("automation_title"), K("automation_description"), K("expected_use"),
       K("out_of_scope"), K("timeline_build_buy"), K("timeline_staff_count"),
       K("timeline_external_staff_count"), K("timeline_staffing_plan"),
       K("timeline_holiday_region"), K("timeline_start_date"),
       K("timeline_milestones"), <<"collector_", "devices">>,
       <<"collector_", "metrics">>, <<"collector_", "cadence">>,
       <<"orch_", "choice">>, <<"orch_", "details_text">>,
       <<"obs_", "go_no_go">>, <<"obs_", "add_logic_choice">>,
       <<"obs_", "add_logic_text">>, <<"stakeholders_", "choices">>,
       <<"stakeholders_", "other_text">> >>

\* the keys "Apply uploaded JSON" pops by name
upload_keys ==
    << K("automation_title"), K("automation_description"), K("expected_use"),
       K("out_of_scope"), K("no_move_forward"), K("no_move_forward_reasons"),
       K("timeline_milestones"), K("timeline_build_buy"),
       K("timeline_staff_count"), K("timeline_external_staff_count"),
       K("timeline_staffing_plan"), K("timeline_holiday_region"),
       K("timeline_start_date"), <<"collector_", "devices">>,
       <<"collector_", "metrics">>, <<"collector_", "cadence">>,
       <<"orch_", "choice">>, <<"orch_", "details_text">>,
       <<"stakeholders_", "choices">>, <<"stakeholders_", "other_text">> >>

\* the handler of the "Reset to defaults" button, up to st.rerun()
page_reset(ps) ==
    LET s1 == PopPrefixes(ps, reset_prefixes)
        s2 == UncheckPrefixes(s1, checkbox_prefixes)
        s3 == PutEach(s2, enable_keys, Bool(FALSE))
        s4 == PopAll(s3, reset_keys)
        \* Minimal sane defaults
        s5 == PutAll(s4, << <<<<"dep_", "network_infra">>, Bool(TRUE)>>,
                            <<<<"dep_", "revision_control">>, Bool(TRUE)>>,
                            <<<<"dep_", "revision_control", "_details">>, Lit("GitHub")>> >>)
        \* Orchestration defaults so select resets visually
        s6 == PutAll(s5, << <<<<"orch_", "choice">>, SelectOne>>,
                            <<<<"orch_", "details_text">>, EmptyStr>> >>)
    IN InOrder(<<s1, s2, s3, s4, s5>>, s6)

\* the options of the "Intended users" checkboxes
user_opts ==
    <<"Network Engineers", "IT", "Operations", "Help Desk",
      "Other IT Organizations", "Any User", "Authorized Users">>

\* the dependency checkboxes: key, label, default, whether a details field
\* follows
dep_defs ==
    << <<"network_infra", "Network Infrastructure", TRUE, FALSE>>,
       <<"network_controllers", "Network Controllers", FALSE, TRUE>>,
       <<"revision_control", "Revision Control system", TRUE, TRUE>>,
       <<"itsm", "ITSM/Change Management System", FALSE, TRUE>>,
       <<"authn", "Authentication System", FALSE, TRUE>>,
       <<"ipams", "IPAMS Systems", FALSE, TRUE>>,
       <<"inventory", "Inventory Systems", FALSE, TRUE>>,
       <<"design_intent", "Design Data/Intent Systems", FALSE, TRUE>>,
       <<"observability", "Observability System", FALSE, TRUE>>,
       <<"vendor_mgmt", "Vendor Tool/Management System", FALSE, TRUE>> >>

\* label_to_key.get(lbl) of the upload handler, "" for None
label_to_key(lbl) ==
    IF \E i \in 1..Len(dep_defs) : Lit(dep_defs[i][2]) = lbl
    THEN dep_defs[CHOOSE i \in 1..Len(dep_defs) : Lit(dep_defs[i][2]) = lbl][1]
    ELSE ""

RECURSIVE page_upload_users(_, _)
\* for u in pres_sel.get("users", []) or []: pres_user_{u} = True
page_upload_users(ps, users) ==
    IF users = <<>> THEN ps
    ELSE page_upload_users(Put(ps, <<"pres_", "user_">> \o Head(users)[2], Bool(TRUE)),
                           Tail(users))

RECURSIVE page_upload_dependencies(_, _)
\* for d in dep_list: a label the page knows checks its box and, when the
\* details are truthy, stores them; any other label sets nothing
page_upload_dependencies(ps, dep_list) ==
    IF dep_list = <<>> THEN ps
    ELSE LET d == Or(Head(dep_list), EmptyDict)
             lbl == Get(d, K("name"), None)
             details == Get(d, K("details"), EmptyStr)
             key == label_to_key(lbl)
             s1 == IF key = "" THEN ps
                   ELSE Put(ps, <<"dep_", key>>, Bool(TRUE))
             s2 == IF key # "" /\ Truthy(details)
                   THEN Put(s1, <<"dep_", key, "_details">>, details)
                   ELSE s1
         IN page_upload_dependencies(s2, Tail(dep_list))

\* the keys st.session_state["_wizard_data"] is built from, of the sections
\* followed here
wizard_data_keys ==
    << <<"orch_", "choice">>, <<"orch_", "details_text">>,
       <<"collector_", "devices">> >>

\* prefixes of the widget keys st.session_state["_wizard_checkboxes"] keeps
widget_prefixes ==
    << <<"pres_", "user_">>, <<"pres_", "interact_">>, <<"pres_", "tool_">>,
       <<"pres_", "auth_">>, <<"intent_", "dev_">>, <<"intent_", "prov_">>,
       <<"obs_", "state_">>, <<"obs_", "tool_">>, <<"collector_", "method_">>,
       <<"collector_", "auth_">>, <<"collector_", "handle_">>,
       <<"collector_", "norm_">>, <<"collection_tool_">>,
       <<"collection_tools_">>, <<"collector_", "methods_">>,
       <<"collector_", "handling_">>, <<"exec_">>, <<"dep_">>, <<"_tl_">>,
       <<"_timeline_">> >>

\* the backing storage the upload handler writes last
page_upload_backing(ps) ==
    LET wd == Dict([i \in 1..Len(wizard_data_keys) |->
                      <<wizard_data_keys[i], Get(ps, wizard_data_keys[i], None)>>])
        widget(e) == StartsWithAny(e[1], widget_prefixes)
        wc == Dict(SelectSeq(ps[2], widget))
    IN PutAll(ps, << <<<<"_wizard_", "data">>, wd>>,
                     <<<<"_wizard_", "checkboxes">>, wc>>,
                     <<K("_json_loaded"), Bool(TRUE)>> >>)

\* the handler of the "Apply uploaded JSON" button on a document that is a
\* dict: the session it leaves and whether it raised (the handler's except
\* clause reports the error and lets the run go on)
page_upload(ps, data) ==
    LET \* Clear ALL existing wizard-related state before applying
        c1 == PopPrefixes(ps, upload_prefixes)
        c2 == UncheckPrefixes(c1, checkbox_prefixes)
        c3 == PutEach(c2, enable_keys, Bool(FALSE))
        c4 == PutAll(c3, << <<<<"orch_", "choice">>, SelectOne>>,
                            <<<<"orch_", "details_text">>, EmptyStr>> >>)
        c5 == PopAll(c4, upload_keys)
        \* Presentation
        pres == Or(Get(data, K("presentation"), EmptyDict), EmptyDict)
        pres_sel == Or(Get(pres, K("selections"), EmptyDict), EmptyDict)
        a3 == page_upload_users(c5, Or(Get(pres_sel, K("users"), EmptyList), EmptyList)[2])
        \* Orchestration
        orch_sel == Get(Or(Get(data, K("orchestration"), EmptyDict), EmptyDict),
                        K("selections"), EmptyDict)
        orch_choice == Get(orch_sel, K("choice"), None)
        orch_details == Get(orch_sel, K("details"), None)
        a4 == IF IsNone(orch_choice) THEN a3
              ELSE Put(a3, <<"orch_", "choice">>, orch_choice)
        a5 == IF IsNone(orch_details) THEN a4
              ELSE Put(a4, <<"orch_", "details_text">>, orch_details)
        \* Collector
        col_sel == Get(Or(Get(data, K("collector"), EmptyDict), EmptyDict),
                       K("selections"), EmptyDict)
        devices == Get(col_sel, K("devices"), None)
        a6 == IF IsNone(devices) THEN a5
              ELSE Put(a5, <<"collector_", "devices">>, PyStr(devices))
        \* Dependencies
        dep_list == Or(Get(data, K("dependencies"), EmptyList), EmptyList)
        a7 == page_upload_dependencies(a6, dep_list[2])
        \* Timeline basics
        tl == Or(Get(data, K("timeline"), EmptyDict), EmptyDict)
        staff == Get(tl, K("staff_count"), None)
        staff_count == int(Or(staff, IntV(0)))
        a8 == IF IsNone(staff) THEN a7
              ELSE Put(a7, K("timeline_staff_count"), staff_count)
    IN InOrder(<<c1, c2, c3, c4, c5, a3>>,
         CASE ~ IsDict(orch_sel) -> [ss |-> a3, raised |-> TRUE]
           [] ~ IsDict(col_sel) -> [ss |-> a5, raised |-> TRUE]
           [] ~ IsNone(staff) /\ IsRaised(staff_count) ->
                InOrder(<<a4, a5, a6>>, [ss |-> a7, raised |-> TRUE])
           [] OTHER ->
                InOrder(<<a4, a5, a6, a7, a8>>,
                        [ss |-> page_upload_backing(a8), raised |-> FALSE]))

RECURSIVE page_restore_backing(_, _, _)
\* for key, value in backing.items(): a key the session lacks gets its value
\* back (from _wizard_data only when the value is not None)
page_restore_backing(ps, entries, skip_none) ==
    IF entries = <<>> THEN ps
    ELSE LET e == Head(entries)
             s1 == IF HasKey(ps, e[1]) \/ (skip_none /\ IsNone(e[2]))
                   THEN ps ELSE Put(ps, e[1], e[2])
         IN page_restore_backing(s1, Tail(entries), skip_none)

\* "Restore widget keys from backing storage" at the top of every run
page_restore_widget_keys(ps) ==
    LET s1 == IF HasKey(ps, <<"_wizard_", "data">>)
              THEN page_restore_backing(ps, Get(ps, <<"_wizard_", "data">>, EmptyDict)[2], TRUE)
              ELSE ps
    IN IF HasKey(s1, <<"_wizard_", "checkboxes">>)
       THEN page_restore_backing(s1, Get(s1, <<"_wizard_", "checkboxes">>, EmptyDict)[2], FALSE)
       ELSE s1

\* a widget that runs with a key the session lacks leaves its default there
Default(ps, k, v) == IF HasKey(ps, k) THEN ps ELSE Put(ps, k, v)

RECURSIVE page_user_checkboxes(_, _)
\* st.checkbox(opt, key=f"pres_user_{opt}") for opt in user_opts
page_user_checkboxes(ps, i) ==
    IF i > Len(user_opts) THEN ps
    ELSE page_user_checkboxes(Default(ps, <<"pres_", "user_", user_opts[i]>>, Bool(FALSE)),
                              i + 1)

\* the "Intended users" widgets
page_presentation_users(ps) ==
    LET s1 == page_user_checkboxes(ps, 1)
        s2 == Default(s1, <<"pres_", "user_", "custom_enable">>, Bool(FALSE))
    IN IF Truthy(Get(s2, <<"pres_", "user_", "custom_enable">>, Bool(FALSE)))
       THEN Default(s2, <<"pres_", "user_", "custom">>, EmptyStr)
       ELSE s2

\* the "Orchestration" widgets
page_orchestration(ps) ==
    LET s1 == Default(ps, <<"orch_", "choice">>, SelectOne)
    IN IF Get(s1, <<"orch_", "choice">>, SelectOne) = Lit("Yes - provide details")
       THEN Default(s1, <<"orch_", "details_text">>, EmptyStr)
       ELSE s1

\* the "Devices (approx)" text input
page_collector_devices(ps) == Default(ps, <<"collector_", "devices">>, EmptyStr)

RECURSIVE page_dependencies(_, _, _)
\* the "Dependencies" section from dep_defs[i] on: the session it leaves and
\* deps_selected
page_dependencies(ps, deps_selected, i) ==
    IF i > Len(dep_defs) THEN [ss |-> ps, deps_selected |-> deps_selected]
    ELSE LET d == dep_defs[i]
             dep_key == <<"dep_", d[1]>>
             detail_key == <<"dep_", d[1], "_details">>
             s1 == Default(ps, dep_key, Bool(d[3]))
             checked == Truthy(Get(s1, dep_key, Bool(FALSE)))
             default_detail == IF d[1] = "revision_control" THEN Lit("GitHub") ELSE EmptyStr
             s2 == IF checked /\ d[4] THEN Default(s1, detail_key, default_detail) ELSE s1
             detail_text == IF checked /\ d[4] THEN Get(s2, detail_key, EmptyStr) ELSE EmptyStr
             row == MkDict(<< <<K("name"), Lit(d[2])>>,
                              <<K("details"), Str(Strip(Or(detail_text, EmptyStr)[2]))>> >>)
         IN page_dependencies(s2,
                IF checked THEN Append(deps_selected, row) ELSE deps_selected, i + 1)

\* the "Direct staff on project" number input
page_staff_count(ps) ==
    LET s1 == Default(ps, <<"_timeline_", "staff_count">>,
                      int(Get(ps, K("timeline_staff_count"), IntV(1))))
    IN Put(s1, K("timeline_staff_count"),
           int(Get(s1, <<"_timeline_", "staff_count">>, IntV(1))))

\* one run of the script below the upload controls: the session it leaves
\* and payload["dependencies"]
page_run(ps) ==
    LET s1 == page_restore_widget_keys(ps)
        s2 == page_presentation_users(s1)
        s3 == page_orchestration(s2)
        s4 == page_collector_devices(s3)
        r == page_dependencies(s4, <<>>, 1)
        s5 == page_staff_count(r.ss)
    IN InOrder(<<s1, s2, s3, s4, r.ss>>,
         [ss |-> s5,
          payload |-> MkDict(<< <<K("dependencies"), List(r.deps_selected)>> >>)])
\* documents a user uploads to the page: intended users, orchestration
\* selections that are null, devices, dependencies the page defaults to or
\* not, and a staff count, numeric or not
PageDocuments ==
    {Dict(Entry(K("presentation"),
                IF users = Absent THEN Absent
                ELSE MkDict(<< <<K("selections"), MkDict(<< <<K("users"), users>> >>)>> >>))
          \o Entry(K("orchestration"),
                IF orch = Absent THEN Absent
                ELSE MkDict(<< <<K("selections"), orch>> >>))
          \o Entry(K("collector"),
                IF devices = Absent THEN Absent
                ELSE MkDict(<< <<K("selections"), MkDict(<< <<K("devices"), devices>> >>)>> >>))
          \o Entry(K("dependencies"), deps)
          \o Entry(K("timeline"),
                IF staff = Absent THEN Absent
                ELSE MkDict(<< <<K("staff_count"), staff>> >>))) :
        users \in {Absent, List(<<Lit("Network Engineers")>>)},
        orch \in {Absent, None},
        devices \in {Absent, Lit("500")},
        deps \in {Absent,
                  List(DependencyEntry("ITSM/Change Management System", Lit("Jira"))),
                  List(DependencyEntry("Network Infrastructure", EmptyStr)
                       \o DependencyEntry("Revision Control system", Lit("GitLab")))},
        staff \in {IntV(3), Lit("abc")}}

\* what a user changes between two runs: a users checkbox, a dependency
\* checkbox, the devices text
PageEdits ==
    { <<<<"pres_", "user_", "IT">>, Bool(TRUE)>>,
      <<<<"dep_", "itsm">>, Bool(TRUE)>>,
      <<<<"collector_", "devices">>, Lit("200")>> }

\* a session that has run the page once
PageInit ==
    /\ page_state = page_run(EmptyDict).ss
    /\ payload2 = page_run(EmptyDict).payload
    /\ payload = Unset
    /\ pc = "fresh"
    /\ session_state = Unset
    /\ updates = Unset
    /\ holiday_set = {}
    /\ page_timeline = Unset
    /\ bd_args = Unset
    /\ bd_result = Unset
    /\ sentence_args = Unset
    /\ sentence = Unset
    /\ any_content = Unset

\* "Apply uploaded JSON" on a document, and the rest of the run: after
\* st.rerun() when the handler succeeds, in the same run when it raised
PageUpload ==
    \E data \in PageDocuments :
      \E r \in {page_upload(page_state, data)} :
        \E run \in {page_run(r.ss)} :
           /\ page_state' = run.ss
           /\ payload2' = run.payload
           /\ payload' = data
           /\ pc' = IF r.raised THEN "upload_failed" ELSE "uploaded_page"
           /\ UNCHANGED <<session_state, updates, holiday_set, page_timeline,
                          bd_args, bd_result, sentence_args, sentence,
                          any_content>>

\* the user changes a widget; the script runs again
PageEdit ==
    \E e \in PageEdits :
      \E ps \in {Put(page_state, e[1], e[2])} :
        \E run \in {page_run(ps)} :
           /\ page_state' = run.ss
           /\ payload2' = run.payload
           /\ payload' = Unset
           /\ pc' = "edited"
           /\ UNCHANGED <<session_state, updates, holiday_set, page_timeline,
                          bd_args, bd_result, sentence_args, sentence,
                          any_content>>

\* "Reset to defaults" and the run after its st.rerun()
PageReset ==
    \E ps \in {page_reset(page_state)} :
      \E run \in {page_run(ps)} :
       /\ page_state' = run.ss
       /\ payload2' = run.payload
       /\ payload' = Unset
       /\ pc' = "reset"
       /\ UNCHANGED <<session_state, updates, holiday_set, page_timeline,
                      bd_args, bd_result, sentence_args, sentence,
                      any_content>>

PageNext == PageUpload \/ PageEdit \/ PageReset

SpecPage == PageInit /\ [][PageNext]_vars

-----------------------------------------------------------------------------
(* Claims about the page's session *)

\* the "Intended users" options whose checkbox is set
CheckedUsers(ps) ==
    {i \in 1..Len(user_opts) :
        Truthy(Get(ps, <<"pres_", "user_", user_opts[i]>>, Bool(FALSE)))}

\* the names of a dependencies list
DependencyNames(deps) == {Get(deps[2][i], K("name"), None) : i \in 1..Len(deps[2])}

\* the session of a page that has run once and was never touched
FreshRun == page_run(EmptyDict)

\* C24: after "Reset to defaults" and the run of the page that follows it,
\* whatever uploads and edits came before, no intended-users checkbox is set,
\* the devices text is empty and the dependencies are the default pair: no
\* value that an earlier "Apply uploaded JSON" loaded is present again.
C24_ResetLeavesDefaults ==
    pc = "reset" =>
        /\ CheckedUsers(page_state) = {}
        /\ Get(page_state, <<"collector_", "devices">>, EmptyStr) = EmptyStr
        /\ payload2 = FreshRun.payload

\* a reset of a session into which an upload had loaded an intended user
C24_ResetAfterUpload ==
    /\ pc = "reset"
    /\ Truthy(Get(Get(page_state, <<"_wizard_", "checkboxes">>, EmptyDict),
                  <<"pres_", "user_", "Network Engineers">>, Bool(FALSE)))

\* C28: after "Apply uploaded JSON" and the run that follows it, the page's
\* payload["dependencies"] has exactly the names of the uploaded dependencies
\* list, also when that list holds neither "Network Infrastructure" nor
\* "Revision Control system".
C28_UploadedDependencies ==
    pc = "uploaded_page" =>
        DependencyNames(Get(payload2, K("dependencies"), EmptyList))
            = DependencyNames(Or(Get(payload, K("dependencies"), EmptyList), EmptyList))

\* an upload whose dependencies list holds neither of the page's defaults
C28_OnlyItsmUploaded ==
    /\ pc = "uploaded_page"
    /\ DependencyNames(Or(Get(payload, K("dependencies"), EmptyList), EmptyList))
           = {Lit("ITSM/Change Management System")}

\* C29: when "Apply uploaded JSON" fails with an exception while it reads the
\* document, the session is what it was before the button was pressed: no
\* key was cleared and no part of the document was applied.
C29_FailedUploadKeepsSession ==
    [][pc' = "upload_failed" => page_state' = page_state]_vars

\* an upload that failed on a document that also names an intended user
C29_UploadFailed ==
    /\ pc = "upload_failed"
    /\ HasKey(payload, K("presentation"))

-----------------------------------------------------------------------------
(* Claims about the selection lists of the builder *)

RECURSIVE OptionLabels(_, _, _)
\* the labels L of the entries prefix+L = True, in the order of the snapshot,
\* the enable toggle left out
OptionLabels(entries, prefix, enable) ==
    IF entries = <<>> THEN <<>>
    ELSE LET key == Head(entries)[1]
             rest == OptionLabels(Tail(entries), prefix, enable)
         IN IF StartsWith(key, prefix) /\ Head(entries)[2] = Bool(TRUE) /\ key # enable
            THEN <<Str(SubSeq(key, Len(prefix) + 1, Len(key)))>> \o rest
            ELSE rest

\* the forms in which a list may hold the custom text of a group: none when
\* the toggle is off or the text is blank, else the text as typed or trimmed
CustomEntries(ss, enable, text) ==
    LET txt == Get(ss, text, EmptyStr)
    IN IF Truthy(Get(ss, enable, Bool(FALSE))) /\ IsStr(txt) /\ Strip(txt[2]) # <<>>
       THEN {txt, Str(Strip(txt[2]))}
       ELSE {}

\* the elements of a list value
Elements(l) == {l[2][i] : i \in 1..Len(l[2])}

\* C25: for every checkbox group the selection list of the built document
\* holds a label L exactly when the snapshot holds prefix+L = True or L is
\* the enabled custom text; the enable toggles add no entry and a label that
\* contains the prefix text is listed unaltered.
C25_LabelsListed ==
    Built =>
      \A g \in LabelGroups :
        LET list == SelectionsOf(payload, g[1], g[2])
            labels == OptionLabels(session_state[2], g[3], g[4])
        IN /\ IsList(list)
           /\ Elements(list) \ CustomEntries(session_state, g[4], g[5])
                = {labels[i] : i \in 1..Len(labels)}
                    \ CustomEntries(session_state, g[4], g[5])

\* a document was built from a snapshot whose intended-users enable toggle is
\* set without any text, beside a checked option
C25_ToggleBuilt ==
    /\ Built
    /\ Get(session_state, <<"pres_", "user_", "custom_enable">>, None) = Bool(TRUE)
    /\ Get(session_state, <<"pres_", "user_", "CLI">>, None) = Bool(TRUE)
    /\ ~ HasKey(session_state, <<"pres_", "user_", "custom">>)

-----------------------------------------------------------------------------
(* The page's _has_any_content *)

DEFAULT_TITLE == Lit("My new network automation project")

DEFAULT_DESCRIPTION ==
    Lit("Here is a short description of my new network automation project")

\* the title and the description the page installs in a new session, and
\* again on "Reset to defaults"
InstalledTitle == Lit("My new network automation project")

InstalledDescription ==
    Lit("Here is a short description of my my new network automation project")

\* the number of elements of a sequence that equal x
Count(xs, x) == Cardinality({i \in 1..Len(xs) : xs[i] = x})

\* _sorted_deps(a) == _sorted_deps(b): the same rows, each as often
SameSorted(a, b) ==
    /\ Len(a) = Len(b)
    /\ \A i \in 1..Len(a) : Count(a, a[i]) = Count(b, a[i])

\* default_deps of _has_any_content
content_default_deps ==
    << MkDict(<< <<K("name"), Lit("Network Infrastructure")>>,
                 <<K("details"), EmptyStr>> >>),
       MkDict(<< <<K("name"), Lit("Revision Control system")>>,
                 <<K("details"), Lit("GitHub")>> >>) >>

\* _has_any_content(p).  The flags of the narrative sections come from
\* utils.is_meaningful, which is not part of the sources: narrative stands
\* for "some narrative text is meaningful", and both outcomes are drawn.
\* A details value that is None raises inside the try block, and the
\* function then returns False.
has_any_content(p, narrative) ==
    LET orch_narr == Or(Get(p, K("orchestration"), EmptyDict), EmptyDict)
        deps == Or(Get(p, K("dependencies"), EmptyList), EmptyList)[2]
        tl == Or(Get(p, K("timeline"), EmptyDict), EmptyDict)
        ini == Or(Get(p, K("initiative"), EmptyDict), EmptyDict)
        my_role == Or(Get(p, K("my_role"), EmptyDict), EmptyDict)
        orch_sel == Or(Get(orch_narr, K("selections"), None), EmptyDict)
        orch_choice == Strip(Or(Get(orch_sel, K("choice"), None), EmptyStr)[2])
        orch_flag == orch_choice # <<>> /\ Str(orch_choice) # SelectOne
        named(d) == Truthy(Get(Or(d, EmptyDict), K("name"), None))
        slim(d) == MkDict(<< <<K("name"), Get(Or(d, EmptyDict), K("name"), None)>>,
                             <<K("details"),
                               Str(Strip(Get(Or(d, EmptyDict), K("details"), EmptyStr)[2]))>> >>)
        kept == SelectSeq(deps, named)
        deps_slim == [i \in 1..Len(kept) |-> slim(kept[i])]
        deps_flag == deps # <<>> /\ ~ SameSorted(deps_slim, content_default_deps)
        tl_flag == Strip(Or(Get(tl, K("staffing_plan_md"), None), EmptyStr)[2]) # <<>>
        title == Strip(Or(Get(ini, K("title"), None), EmptyStr)[2])
        desc == Strip(Or(Get(ini, K("description"), None), EmptyStr)[2])
        ini_flag == \/ title # <<>> /\ Str(title) # DEFAULT_TITLE
                    \/ desc # <<>> /\ Str(desc) # DEFAULT_DESCRIPTION
        role(k) == Strip(Or(Get(my_role, K(k), None), EmptyStr)[2]) # <<>>
        role_flag == role("who") \/ role("skills") \/ role("developer")
    IN IF \E i \in 1..Len(deps) :
              named(deps[i]) /\ IsNone(Get(Or(deps[i], EmptyDict), K("details"), EmptyStr))
       THEN Bool(FALSE)
       ELSE Bool(narrative \/ orch_flag \/ deps_flag \/ tl_flag \/ ini_flag \/ role_flag)

\* the dependency lists of a page payload: the default pair in both orders,
\* the pair with one more system, and the list of a row without details
ContentDependencies ==
    { content_default_deps,
      <<content_default_deps[2], content_default_deps[1]>>,
      Append(content_default_deps,
             MkDict(<< <<K("name"), Lit("ITSM/Change Management System")>>,
                       <<K("details"), Lit("Jira")>> >>)),
      << MkDict(<< <<K("name"), Lit("Network Infrastructure")>>,
                   <<K("details"), None>> >>) >> }

\* payloads as the page builds them, on the fields _has_any_content reads
ContentPayloads ==
    {MkDict(<< <<K("initiative"),
                 MkDict(<< <<K("title"), title>>, <<K("description"), desc>> >>)>>,
               <<K("my_role"),
                 MkDict(<< <<K("who"), who>>, <<K("skills"), EmptyStr>>,
                           <<K("developer"), EmptyStr>> >>)>>,
               <<K("orchestration"),
                 MkDict(<< <<K("summary"), EmptyStr>>,
                           <<K("selections"),
                             MkDict(<< <<K("choice"), choice>>,
                                       <<K("details"), EmptyStr>> >>)>> >>)>>,
               <<K("dependencies"), List(deps)>>,
               <<K("timeline"), MkDict(<< <<K("staffing_plan_md"), plan>> >>)>> >>) :
        title \in {InstalledTitle, EmptyStr, Lit("Core upgrade")},
        desc \in {InstalledDescription, DEFAULT_DESCRIPTION, EmptyStr},
        who \in {EmptyStr, Lit("I'm a network engineer.")},
        choice \in {SelectOne, Lit("No")},
        deps \in ContentDependencies,
        plan \in {EmptyStr, Lit("Two engineers")}}

ContentInit ==
    /\ payload \in ContentPayloads
    /\ pc = "content"
    /\ any_content = Unset
    /\ session_state = Unset
    /\ updates = Unset
    /\ payload2 = Unset
    /\ page_state = Unset
    /\ holiday_set = {}
    /\ page_timeline = Unset
    /\ bd_args = Unset
    /\ bd_result = Unset
    /\ sentence_args = Unset
    /\ sentence = Unset

\* any_content = _has_any_content(payload)
HasAnyContent ==
    /\ pc = "content"
    /\ any_content = Unset
    /\ \E narrative \in BOOLEAN : any_content' = has_any_content(payload, narrative)
    /\ UNCHANGED <<session_state, payload, updates, payload2, pc, page_state,
                   holiday_set, page_timeline, bd_args, bd_result,
                   sentence_args, sentence>>

ContentNext == HasAnyContent

SpecContent == ContentInit /\ [][ContentNext]_vars

\* the payload of a pristine or freshly reset session: the title and the
\* description the page installs, no role, the orchestration placeholder, no
\* staffing plan and the default dependency pair in either order
PristinePayload ==
    /\ pc = "content"
    /\ Get(Get(payload, K("initiative"), EmptyDict), K("title"), None) = InstalledTitle
    /\ Get(Get(payload, K("initiative"), EmptyDict), K("description"), None)
         = InstalledDescription
    /\ Get(Get(payload, K("my_role"), EmptyDict), K("who"), None) = EmptyStr
    /\ Get(Get(Get(payload, K("orchestration"), EmptyDict), K("selections"), EmptyDict),
           K("choice"), None) = SelectOne
    /\ Get(Get(payload, K("timeline"), EmptyDict), K("staffing_plan_md"), None) = EmptyStr
    /\ Get(payload, K("dependencies"), EmptyList)[2]
         \in {content_default_deps, <<content_default_deps[2], content_default_deps[1]>>}

\* C26: _has_any_content returns False for the payload of a pristine or
\* freshly reset session (default title and description as the page installs
\* them, roles on the placeholder, nothing selected, no staffing plan, the
\* default dependency pair in any order).
C26_PristineHasNoContent ==
    (PristinePayload /\ any_content # Unset) => any_content = Bool(FALSE)

\* _has_any_content has returned for a pristine payload whose dependency
\* pair is in the other order
C26_PristineChecked ==
    /\ PristinePayload
    /\ any_content # Unset
    /\ Get(payload, K("dependencies"), EmptyList)[2][1] = content_default_deps[2]

-----------------------------------------------------------------------------
(* The two timeline builders without a holiday region *)

\* the name, the duration and the dates of the items of a timeline
ItemDates(timeline) ==
    LET items == ItemsOf(timeline)
    IN [i \in 1..Len(items) |->
          <<ItemName(items[i]), ItemDuration(items[i]),
            ItemStart(items[i]), ItemEnd(items[i])>>]

\* C27: for the same start date and the same milestone names and durations,
\* with no holiday region, wizard_data._build_timeline_data and the page's
\* inline schedule produce the same items with the same start and end dates,
\* the same total_business_days and the same projected_completion.
C27_BuildersAgree ==
    (WdBuilt /\ PageBuilt /\ holiday_set = {}) =>
      /\ ItemDates(TimelineOf(payload)) = ItemDates(page_timeline)
      /\ Get(TimelineOf(payload), K("total_business_days"), None)
           = Get(page_timeline, K("total_business_days"), None)
      /\ Get(TimelineOf(payload), K("projected_completion"), Unset)
           = Get(page_timeline, K("projected_completion"), Unset)

\* both builders have run, with no holiday, on a named milestone of five
\* business days
C27_BothBuilt ==
    /\ WdBuilt
    /\ PageBuilt
    /\ holiday_set = {}
    /\ SnapshotDurations = <<5>>
    /\ ItemName(ItemsOf(page_timeline)[1]) = Lit("Planning")

-----------------------------------------------------------------------------
(* The additional gating logic across save and load *)

\* the snapshot answers "Yes" to the additional gating logic and gives a text
GatingLogicAnswered ==
    /\ pc \in {"restored", "rebuilt"}
    /\ Get(session_state, <<"obs_", "add_logic_choice">>, EmptyStr) = Lit("Yes")
    /\ Truthy(Get(session_state, <<"obs_", "add_logic_text">>, EmptyStr))

\* the additional_logic sentence and the additional_logic_enabled flag of a
\* document's observability section
GatingLogicOf(doc) ==
    LET obs == Get(doc, K("observability"), EmptyDict)
    IN <<Get(obs, K("additional_logic"), Absent),
         Get(Get(obs, K("selections"), EmptyDict), K("additional_logic_enabled"), Absent)>>

\* C30: the additional-gating-logic answer survives save and load: for every
\* snapshot S with obs_add_logic_choice = 'Yes' and a non-empty
\* obs_add_logic_text, restore_session_state_from_data(build_wizard_payload(S))
\* contains obs_add_logic_choice = 'Yes', and the document rebuilt from it has
\* the same observability.additional_logic sentence and
\* selections.additional_logic_enabled = true.
C30_GatingLogicSurvives ==
    GatingLogicAnswered =>
      /\ IsDict(updates)
      /\ Get(updates, <<"obs_", "add_logic_choice">>, Absent) = Lit("Yes")
      /\ (pc = "rebuilt") =>
           /\ IsDict(payload2)
           /\ GatingLogicOf(payload2)[1] = GatingLogicOf(payload)[1]
           /\ GatingLogicOf(payload2)[2] = Bool(TRUE)

\* a snapshot with the answer "Yes" and the text "Check CPU" was built into a
\* document with the sentence, restored and built again
C30_GatingLogicRebuilt ==
    /\ GatingLogicAnswered
    /\ pc = "rebuilt"
    /\ IsDict(payload2)
    /\ GatingLogicOf(payload)
         = <<Str(<<"Additional gating logic: ", "Check CPU">>), Bool(TRUE)>>

=============================================================================
